---- MODULE Spec2Model ----
(***************************************************************************)
(* Model of the chunked file-transfer engine (src/src/FileTransfer.cpp),   *)
(* its shared active-transfer counter, and the worker pool                 *)
(* (src/src/ThreadPool.cpp) that hosts the sessions.                       *)
(*                                                                         *)
(* Six groups of specifications share the module:                         *)
(*   Spec / SpecRace / SpecLoad   sendFile and receiveFile over byte       *)
(*                     channels, with the destination directory as a small *)
(*                     file system;                                        *)
(*   SpecChunk         calculateChunkSize as a function of the counter;    *)
(*   SpecPool / SpecPoolFair   the ThreadPool worker loop, enqueue and     *)
(*                     destructor as threads over a mutex and a condition  *)
(*                     variable;                                           *)
(*   SpecHandler       the accept loop and handleClient of the server and  *)
(*                     of the peer node (src/src/Server.cpp,               *)
(*                     src/src/FileNode.cpp), run as tasks of the pool.    *)
(*   SpecNode          main, stop() and the detached listener thread of    *)
(*                     the peer node over its pool;                        *)
(*   SpecPace          the rate limiting of one transfer against a clock.  *)
(***************************************************************************)
EXTENDS Integers, Sequences, FiniteSets, TLC

VARIABLES
    activeTransfers,  \* FileTransfer::activeTransfers (std::atomic<int>)
    others,           \* sibling transfers of the process that are in flight
    live,             \* the sessions of this run
    snd,              \* per session: the sendFile call
    chan,             \* per session: the byte stream from sender to receiver
    rcv,              \* per session: the receiveFile call
    dirExists,        \* the destination's parent directory exists
    dirWritable,      \* the process may create/unlink entries in it (once it exists)
    part,             \* inode linked at <dest>.part (NoFile when absent)
    final,            \* inode linked at <dest> (NoFile when absent)
    fsData,           \* inode -> bytes stored
    count,            \* SpecChunk: the counter value calculateChunkSize loads
    chunk,            \* SpecChunk: the value it returned (-1 before the call)
    stop,             \* ThreadPool::stop
    tasks,            \* ThreadPool::tasks (std::queue), oldest first
    waiters,          \* workers blocked in condition.wait
    wpc,              \* per worker: where its loop stands
    wtask,            \* per worker: the task it popped (NoTask when none)
    dpc,              \* where ~ThreadPool stands
    joined,           \* workers the destructor has joined so far
    epc,              \* per enqueue call: where it stands
    late,             \* ghost: the call pushed after the destructor began
    early,            \* ghost: tasks pushed while stop was still false
    ran,              \* ghost: task -> number of times a worker ran it
    hnd,              \* per session: the handleClient call of its task
    running,          \* FileNode::running (std::atomic<bool>)
    lpc,              \* where the detached FileNode::runServer thread stands
    pace              \* SpecPace: one transfer's clock, byte total and pacing step

handlerVars == <<hnd>>
nodeVars == <<running, lpc>>
paceVars == <<pace>>
xferVars == <<activeTransfers, others, live, snd, chan, rcv,
              dirExists, dirWritable, part, final, fsData>>
chunkVars == <<count, chunk>>
poolVars == <<stop, tasks, waiters, wpc, wtask, dpc, joined,
              epc, late, early, ran>>
vars == <<xferVars, chunkVars, poolVars, handlerVars, nodeVars, paceVars>>

----------------------------------------------------------------------------
(* Program constants (src/include/FileTransfer.h) *)

MAX_RETRIES == 3
BASE_TRANSFER_RATE == 20

(* Bounds of the model *)

MaxFileLen == 3     \* source files hold 0..MaxFileLen bytes
MaxOthers == 1      \* sibling transfers that may be in flight at once
MaxCount == 24      \* SpecChunk: counter values 0..MaxCount
MaxLoad == 20       \* SpecLoad: sibling transfers 0..MaxLoad
NumWorkers == 2     \* SpecPool: threads of the pool
NumTasks == 2       \* SpecPool: enqueue calls, one task each
TicksPerSec == 2    \* SpecPace: clock readings per second
MaxTicks == 8       \* SpecPace: the clock is followed this far
MaxTotal == 45      \* SpecPace: bytes one timed transfer moves at most
HandlerFileLen == 1 \* SpecHandler: files stored or retrieved hold 0..HandlerFileLen bytes

AllSessions == {1, 2}

Min(a, b) == IF a < b THEN a ELSE b

FileOf(n) == [i \in 1..n |-> i]

----------------------------------------------------------------------------
(* calculateChunkSize, on the value it loads from the counter *)

calculateChunkSize(transfers) ==
    LET t == IF transfers <= 0 THEN 1 ELSE transfers
    IN  BASE_TRANSFER_RATE \div t

----------------------------------------------------------------------------
(* The destination directory: two names, <dest> and <dest>.part, and the   *)
(* inodes they link.  An inode's id names the call that created it.        *)

NoFile == <<>>
Stale == <<0, "stale">>          \* a .part left behind by an earlier run
TestIno(s) == <<s, "test">>      \* created by the test open (line 147)
TempIno(s) == <<s, "temp">>      \* created by the staging open (line 163)
Inodes == {Stale} \cup {TestIno(s) : s \in AllSessions}
                  \cup {TempIno(s) : s \in AllSessions}

(* std::ofstream(path): O_WRONLY|O_CREAT|O_TRUNC.  An existing file is     *)
(* truncated in place; a new one needs a writable directory.               *)
CanOpen == part # NoFile \/ (dirExists /\ dirWritable)

(* ofstream::write at the stream's own offset; a gap left by another       *)
(* call's truncation reads as zero bytes.                                  *)
WriteAt(old, off, data) ==
    LET n == IF Len(old) > off + Len(data) THEN Len(old) ELSE off + Len(data)
    IN  [i \in 1..n |->
            IF i > off /\ i <= off + Len(data) THEN data[i - off]
            ELSE IF i <= Len(old) THEN old[i] ELSE 0]

----------------------------------------------------------------------------
(* sendFile(socket, filename), lines 38-88 *)

(* Fields of the call that are not in the code: held (increments not yet   *)
(* matched by a decrement), opened (the source opened), tries (send()      *)
(* calls made for the chunk in buf), sent (send() was called at all).      *)
SndIdle == [pc |-> "idle", file |-> <<>>, pos |-> 0, eof |-> FALSE,
            buf |-> <<>>, retries |-> 0, held |-> 0, opened |-> FALSE,
            tries |-> 0, sent |-> FALSE]

(* line 40: activeTransfers++ *)
SendEnter(s) ==
    /\ s \in live
    /\ snd[s].pc = "idle"
    /\ activeTransfers' = activeTransfers + 1
    /\ snd' = [snd EXCEPT ![s].pc = "open", ![s].held = 1]
    /\ UNCHANGED <<others, live, chan, rcv, dirExists, dirWritable, part, final, fsData>>

(* SendOpenFail without line 44: the early return keeps the increment *)
SendOpenFail_NoDecrement(s) ==
    /\ s \in live
    /\ snd[s].pc = "open"
    /\ snd' = [snd EXCEPT ![s].pc = "ret_false"]
    /\ UNCHANGED <<activeTransfers, others, live, chan, rcv, dirExists, dirWritable,
                   part, final, fsData>>

(* lines 42-46: the source cannot be opened: decrement and return false *)
SendOpenFail(s) ==
    /\ s \in live
    /\ snd[s].pc = "open"
    /\ activeTransfers' = activeTransfers - 1
    /\ snd' = [snd EXCEPT ![s].pc = "ret_false", ![s].held = 0]
    /\ UNCHANGED <<others, live, chan, rcv, dirExists, dirWritable, part, final, fsData>>

(* lines 42, 48-49: the source opens *)
SendOpenOk(s) ==
    /\ s \in live
    /\ snd[s].pc = "open"
    /\ snd' = [snd EXCEPT ![s].pc = "loop", ![s].opened = TRUE]
    /\ UNCHANGED <<activeTransfers, others, live, chan, rcv, dirExists, dirWritable,
                   part, final, fsData>>

(* SendRead with a buffer that is never resized: every chunk has the size  *)
(* a transfer running alone would use                                      *)
SendRead_FixedSize(s) ==
    /\ s \in live
    /\ snd[s].pc = "loop"
    /\ ~snd[s].eof
    /\ LET size == calculateChunkSize(1)
           n == Min(size, Len(snd[s].file) - snd[s].pos)
       IN  snd' = [snd EXCEPT ![s].pc = "send",
                              ![s].buf = SubSeq(snd[s].file, snd[s].pos + 1, snd[s].pos + n),
                              ![s].pos = snd[s].pos + n,
                              ![s].eof = (n < size),
                              ![s].retries = 0,
                              ![s].tries = 0]
    /\ UNCHANGED <<activeTransfers, others, live, chan, rcv, dirExists, dirWritable,
                   part, final, fsData>>

(* SendRead with `int retries = 0;` hoisted out of the loop: the count      *)
(* carries over from chunk to chunk                                        *)
SendRead_KeepsRetries(s) ==
    /\ s \in live
    /\ snd[s].pc = "loop"
    /\ ~snd[s].eof
    /\ LET size == calculateChunkSize(activeTransfers)
           n == Min(size, Len(snd[s].file) - snd[s].pos)
       IN  snd' = [snd EXCEPT ![s].pc = "send",
                              ![s].buf = SubSeq(snd[s].file, snd[s].pos + 1, snd[s].pos + n),
                              ![s].pos = snd[s].pos + n,
                              ![s].eof = (n < size),
                              ![s].tries = 0]
    /\ UNCHANGED <<activeTransfers, others, live, chan, rcv, dirExists, dirWritable,
                   part, final, fsData>>

(* lines 54-60: loop test, buffer.resize(calculateChunkSize()), file.read. *)
(* istream::read sets eofbit when fewer than size bytes were left.         *)
SendRead(s) ==
    /\ s \in live
    /\ snd[s].pc = "loop"
    /\ ~snd[s].eof
    /\ LET size == calculateChunkSize(activeTransfers)
           n == Min(size, Len(snd[s].file) - snd[s].pos)
       IN  snd' = [snd EXCEPT ![s].pc = "send",
                              ![s].buf = SubSeq(snd[s].file, snd[s].pos + 1, snd[s].pos + n),
                              ![s].pos = snd[s].pos + n,
                              ![s].eof = (n < size),
                              ![s].retries = 0,
                              ![s].tries = 0]
    /\ UNCHANGED <<activeTransfers, others, live, chan, rcv, dirExists, dirWritable,
                   part, final, fsData>>

(* sendChunk, lines 262-266: true iff send() took exactly size bytes *)
sendChunk(accepted, size) == accepted = size

(* SendAttempt keeping only the unsent remainder of the chunk for the next  *)
(* attempt after a partial accept                                          *)
SendAttempt_SendsRemainder(s) ==
    /\ s \in live
    /\ snd[s].pc = "send"
    /\ snd[s].retries < MAX_RETRIES
    /\ \E r \in {-1} \cup 0..Len(snd[s].buf) :
          /\ r = 0 => Len(snd[s].buf) = 0
          /\ chan' = [chan EXCEPT ![s].data =
                         @ \o SubSeq(snd[s].buf, 1, IF r < 0 THEN 0 ELSE r)]
          /\ IF sendChunk(r, Len(snd[s].buf))
             THEN snd' = [snd EXCEPT ![s].pc = "loop",
                                    ![s].tries = @ + 1, ![s].sent = TRUE]
             ELSE snd' = [snd EXCEPT ![s].retries = @ + 1,
                                    ![s].tries = @ + 1, ![s].sent = TRUE,
                                    ![s].buf = SubSeq(@, (IF r < 0 THEN 0 ELSE r) + 1,
                                                      Len(@))]
    /\ UNCHANGED <<activeTransfers, others, live, rcv, dirExists, dirWritable,
                   part, final, fsData>>

(* lines 61-69: one attempt of the retry loop.  send() returns -1 and  *)
(* queues nothing, or queues the first r bytes and returns r.              *)
SendAttempt(s) ==
    /\ s \in live
    /\ snd[s].pc = "send"
    /\ snd[s].retries < MAX_RETRIES
    /\ \E r \in {-1} \cup 0..Len(snd[s].buf) :
          /\ r = 0 => Len(snd[s].buf) = 0
          /\ chan' = [chan EXCEPT ![s].data =
                         @ \o SubSeq(snd[s].buf, 1, IF r < 0 THEN 0 ELSE r)]
          /\ IF sendChunk(r, Len(snd[s].buf))
             THEN snd' = [snd EXCEPT ![s].pc = "loop",
                                    ![s].tries = @ + 1, ![s].sent = TRUE]
             ELSE snd' = [snd EXCEPT ![s].retries = @ + 1,
                                    ![s].tries = @ + 1, ![s].sent = TRUE]
    /\ UNCHANGED <<activeTransfers, others, live, rcv, dirExists, dirWritable,
                   part, final, fsData>>

(* lines 72-75: all attempts failed: decrement and return false *)
SendAbort(s) ==
    /\ s \in live
    /\ snd[s].pc = "send"
    /\ snd[s].retries = MAX_RETRIES
    /\ activeTransfers' = activeTransfers - 1
    /\ snd' = [snd EXCEPT ![s].pc = "ret_false", ![s].held = 0]
    /\ UNCHANGED <<others, live, chan, rcv, dirExists, dirWritable, part, final, fsData>>

(* lines 54, 86-87: the loop ends at eof: decrement and return true *)
SendReturn(s) ==
    /\ s \in live
    /\ snd[s].pc = "loop"
    /\ snd[s].eof
    /\ activeTransfers' = activeTransfers - 1
    /\ snd' = [snd EXCEPT ![s].pc = "ret_true", ![s].held = 0]
    /\ UNCHANGED <<others, live, chan, rcv, dirExists, dirWritable, part, final, fsData>>

(* the caller closes the socket after sendFile returns, whatever it returned *)
SendClose(s) ==
    /\ s \in live
    /\ snd[s].pc \in {"ret_true", "ret_false"}
    /\ ~chan[s].closed
    /\ chan' = [chan EXCEPT ![s].closed = TRUE]
    /\ UNCHANGED <<activeTransfers, others, live, snd, rcv, dirExists, dirWritable,
                   part, final, fsData>>

----------------------------------------------------------------------------
(* receiveFile(socket, filename, printContent), lines 97-240 *)

(* Fields of the call that are not in the code: held (increments not yet   *)
(* matched by a decrement), reads (recv was called), got (the bytes recv   *)
(* delivered), made (the call created a file at <dest>.part), entryW (the  *)
(* directory was writable when the call began), overlap (another call on   *)
(* the same destination ran during this one), rmFailed (the cleanup's      *)
(* remove threw), eot (recv returned 0), renFailed (rename threw), printed *)
(* (control reached the content-printing step of lines 220-222).  bad is   *)
(* the staging stream's badbit.                                            *)
RcvIdle == [pc |-> "idle", name |-> "path", retries |-> 0, size |-> 0,
            fd |-> NoFile, off |-> 0, ok |-> TRUE, got |-> <<>>,
            held |-> 0, reads |-> FALSE, overlap |-> FALSE,
            entryW |-> TRUE, made |-> FALSE, bad |-> FALSE, rmFailed |-> FALSE,
            eot |-> FALSE, renFailed |-> FALSE, printed |-> FALSE]

RcvRunning(s) == rcv[s].pc \notin {"idle", "ret_true", "ret_false", "thrown"}

(* another call on the same destination is between its entry and its exit *)
MarkOverlap(r, s) ==
    [t \in AllSessions |->
        IF t # s /\ RcvRunning(t) THEN [r[t] EXCEPT !.overlap = TRUE]
        ELSE IF t = s THEN [r[t] EXCEPT !.overlap =
                               \E u \in AllSessions \ {s} : RcvRunning(u)]
        ELSE r[t]]

(* line 98: activeTransfers++ *)
RecvEnter(s) ==
    /\ s \in live
    /\ rcv[s].pc = "idle"
    /\ activeTransfers' = activeTransfers + 1
    /\ rcv' = MarkOverlap([rcv EXCEPT ![s].pc = "validate", ![s].held = 1,
                                      ![s].entryW = dirWritable], s)
    /\ UNCHANGED <<others, live, snd, chan, dirExists, dirWritable, part, final, fsData>>

(* lines 103-107: an empty filename: decrement and return false *)
RecvValidate(s) ==
    /\ s \in live
    /\ rcv[s].pc = "validate"
    /\ IF rcv[s].name = "empty"
       THEN /\ activeTransfers' = activeTransfers - 1
            /\ rcv' = [rcv EXCEPT ![s].pc = "ret_false", ![s].held = 0]
       ELSE /\ rcv' = [rcv EXCEPT ![s].pc = "dirs"]
            /\ UNCHANGED activeTransfers
    /\ UNCHANGED <<others, live, snd, chan, dirExists, dirWritable, part, final, fsData>>

(* lines 110-134, no failure: a bare filename has no parent path and is    *)
(* not checked; an existing parent passes access(W_OK); an absent one is   *)
(* created and then passes access(W_OK)                                    *)
RecvDirsOk(s) ==
    /\ s \in live
    /\ rcv[s].pc = "dirs"
    /\ rcv[s].name = "bare" \/ dirWritable
    /\ dirExists' = TRUE
    /\ rcv' = [rcv EXCEPT ![s].pc = "test"]
    /\ UNCHANGED <<activeTransfers, others, live, snd, chan, dirWritable, part, final, fsData>>

(* lines 116-121, 127-132: access(W_OK) fails on the existing or the newly *)
(* created parent: decrement and return false                              *)
RecvDirsDenied(s) ==
    /\ s \in live
    /\ rcv[s].pc = "dirs"
    /\ rcv[s].name = "path"
    /\ ~dirWritable
    /\ dirExists' = TRUE
    /\ activeTransfers' = activeTransfers - 1
    /\ rcv' = [rcv EXCEPT ![s].pc = "ret_false", ![s].held = 0]
    /\ UNCHANGED <<others, live, snd, chan, dirWritable, part, final, fsData>>

(* lines 123, 135-139: create_directories throws filesystem_error, which   *)
(* is caught: decrement and return false                                   *)
RecvDirsThrow(s) ==
    /\ s \in live
    /\ rcv[s].pc = "dirs"
    /\ rcv[s].name = "path"
    /\ ~dirExists
    /\ activeTransfers' = activeTransfers - 1
    /\ rcv' = [rcv EXCEPT ![s].pc = "ret_false", ![s].held = 0]
    /\ UNCHANGED <<others, live, snd, chan, dirExists, dirWritable, part, final, fsData>>

(* lines 147-157: std::ofstream testFile(tempFilename) *)
RecvTestOpen(s) ==
    /\ s \in live
    /\ rcv[s].pc = "test"
    /\ IF CanOpen
       THEN /\ part' = IF part = NoFile THEN TestIno(s) ELSE part
            /\ fsData' = [fsData EXCEPT ![part'] = <<>>]
            /\ rcv' = [rcv EXCEPT ![s].pc = "testrm",
                                  ![s].made = @ \/ part = NoFile]
            /\ UNCHANGED activeTransfers
       ELSE /\ activeTransfers' = activeTransfers - 1
            /\ rcv' = [rcv EXCEPT ![s].pc = "ret_false", ![s].held = 0]
            /\ UNCHANGED <<part, fsData>>
    /\ UNCHANGED <<others, live, snd, chan, dirExists, dirWritable, final>>

(* lines 158-159: testFile.close(); std::filesystem::remove(tempFilename). *)
(* The call is outside every try block: when unlink fails the              *)
(* filesystem_error leaves receiveFile, past every decrement.              *)
RecvTestRemove(s) ==
    /\ s \in live
    /\ rcv[s].pc = "testrm"
    /\ IF part = NoFile \/ dirWritable
       THEN /\ part' = NoFile
            /\ rcv' = [rcv EXCEPT ![s].pc = "opentmp"]
       ELSE /\ rcv' = [rcv EXCEPT ![s].pc = "thrown"]
            /\ UNCHANGED part
    /\ UNCHANGED <<activeTransfers, others, live, snd, chan, dirExists, dirWritable,
                   final, fsData>>

(* RecvOpenTemp with an exclusive create (O_EXCL): the open fails when a   *)
(* staging file is already there                                           *)
RecvOpenTemp_Exclusive(s) ==
    /\ s \in live
    /\ rcv[s].pc = "opentmp"
    /\ IF part = NoFile /\ dirWritable
       THEN /\ part' = TempIno(s)
            /\ fsData' = [fsData EXCEPT ![part'] = <<>>]
            /\ rcv' = [rcv EXCEPT ![s].pc = "loop", ![s].fd = part',
                                  ![s].off = 0, ![s].ok = TRUE, ![s].made = TRUE]
            /\ UNCHANGED activeTransfers
       ELSE /\ activeTransfers' = activeTransfers - 1
            /\ rcv' = [rcv EXCEPT ![s].pc = "ret_false", ![s].held = 0]
            /\ UNCHANGED <<part, fsData>>
    /\ UNCHANGED <<others, live, snd, chan, dirExists, dirWritable, final>>

(* RecvOpenTemp opening the destination itself: no staging file *)
RecvOpenTemp_AtFinal(s) ==
    /\ s \in live
    /\ rcv[s].pc = "opentmp"
    /\ IF final # NoFile \/ dirWritable
       THEN /\ final' = IF final = NoFile THEN TempIno(s) ELSE final
            /\ fsData' = [fsData EXCEPT ![final'] = <<>>]
            /\ rcv' = [rcv EXCEPT ![s].pc = "loop", ![s].fd = final',
                                  ![s].off = 0, ![s].ok = TRUE,
                                  ![s].made = @ \/ final = NoFile]
            /\ UNCHANGED activeTransfers
       ELSE /\ activeTransfers' = activeTransfers - 1
            /\ rcv' = [rcv EXCEPT ![s].pc = "ret_false", ![s].held = 0]
            /\ UNCHANGED <<final, fsData>>
    /\ UNCHANGED <<others, live, snd, chan, dirExists, dirWritable, part>>

(* lines 163-172: std::ofstream tempFile(tempFilename, binary) *)
RecvOpenTemp(s) ==
    /\ s \in live
    /\ rcv[s].pc = "opentmp"
    /\ IF CanOpen
       THEN /\ part' = IF part = NoFile THEN TempIno(s) ELSE part
            /\ fsData' = [fsData EXCEPT ![part'] = <<>>]
            /\ rcv' = [rcv EXCEPT ![s].pc = "loop", ![s].fd = part',
                                  ![s].off = 0, ![s].ok = TRUE,
                                  ![s].made = @ \/ part = NoFile]
            /\ UNCHANGED activeTransfers
       ELSE /\ activeTransfers' = activeTransfers - 1
            /\ rcv' = [rcv EXCEPT ![s].pc = "ret_false", ![s].held = 0]
            /\ UNCHANGED <<part, fsData>>
    /\ UNCHANGED <<others, live, snd, chan, dirExists, dirWritable, final>>

(* lines 177-180: buffer.resize(calculateChunkSize()); retries = 0 *)
RecvLoop(s) ==
    /\ s \in live
    /\ rcv[s].pc = "loop"
    /\ rcv' = [rcv EXCEPT ![s].pc = "recv",
                          ![s].size = calculateChunkSize(activeTransfers),
                          ![s].retries = 0]
    /\ UNCHANGED <<activeTransfers, others, live, snd, chan, dirExists, dirWritable,
                   part, final, fsData>>

(* RecvError without the retry loop: the first error result fails the      *)
(* transfer                                                                *)
RecvError_FailsAtOnce(s) ==
    /\ s \in live
    /\ rcv[s].pc = "recv"
    /\ rcv[s].retries < MAX_RETRIES
    /\ rcv' = [rcv EXCEPT ![s].retries = @ + 1, ![s].reads = TRUE,
                          ![s].pc = "close", ![s].ok = FALSE]
    /\ UNCHANGED <<activeTransfers, others, live, snd, chan, dirExists, dirWritable,
                   part, final, fsData>>

(* lines 183-186: recv() returns -1: count the retry *)
RecvError(s) ==
    /\ s \in live
    /\ rcv[s].pc = "recv"
    /\ rcv[s].retries < MAX_RETRIES
    /\ rcv' = [rcv EXCEPT ![s].retries = @ + 1, ![s].reads = TRUE]
    /\ UNCHANGED <<activeTransfers, others, live, snd, chan, dirExists, dirWritable,
                   part, final, fsData>>

(* lines 183-184, 200-207: recv() returns n > 0 bytes, at most the buffer; *)
(* tempFile.write stores them, or fails (disk full, I/O error) and leaves  *)
(* the stream bad, which the code never tests: later writes do nothing     *)
RecvData(s) ==
    /\ s \in live
    /\ rcv[s].pc = "recv"
    /\ rcv[s].retries < MAX_RETRIES
    /\ \E n \in 1..Min(rcv[s].size, Len(chan[s].data)), stored \in BOOLEAN :
          LET data == SubSeq(chan[s].data, 1, n) IN
          /\ rcv[s].bad => ~stored
          /\ chan' = [chan EXCEPT ![s].data = SubSeq(@, n + 1, Len(@))]
          /\ fsData' = IF stored
                        THEN [fsData EXCEPT ![rcv[s].fd] = WriteAt(@, rcv[s].off, data)]
                        ELSE fsData
          /\ rcv' = [rcv EXCEPT ![s].pc = "loop",
                                ![s].off = IF stored THEN @ + n ELSE @,
                                ![s].bad = ~stored,
                                ![s].got = @ \o data, ![s].reads = TRUE]
    /\ UNCHANGED <<activeTransfers, others, live, snd, dirExists, dirWritable, part, final>>

(* RecvZero with a zero-length read taken as an error of the transfer *)
RecvZero_AsFailure(s) ==
    /\ s \in live
    /\ rcv[s].pc = "recv"
    /\ rcv[s].retries < MAX_RETRIES
    /\ rcv[s].size = 0 \/ (chan[s].data = <<>> /\ chan[s].closed)
    /\ rcv' = [rcv EXCEPT ![s].pc = "close", ![s].ok = FALSE, ![s].reads = TRUE,
                          ![s].eot = TRUE]
    /\ UNCHANGED <<activeTransfers, others, live, snd, chan, dirExists, dirWritable,
                   part, final, fsData>>

(* lines 183-184, 195-198: recv() returns 0, as it does at end of stream   *)
(* and for a zero-length buffer: taken as the end of the transmission      *)
RecvZero(s) ==
    /\ s \in live
    /\ rcv[s].pc = "recv"
    /\ rcv[s].retries < MAX_RETRIES
    /\ rcv[s].size = 0 \/ (chan[s].data = <<>> /\ chan[s].closed)
    /\ rcv' = [rcv EXCEPT ![s].pc = "close", ![s].ok = TRUE, ![s].reads = TRUE,
                          ![s].eot = TRUE]
    /\ UNCHANGED <<activeTransfers, others, live, snd, chan, dirExists, dirWritable,
                   part, final, fsData>>

(* lines 189-192: the retries are used up *)
RecvGiveUp(s) ==
    /\ s \in live
    /\ rcv[s].pc = "recv"
    /\ rcv[s].retries = MAX_RETRIES
    /\ rcv' = [rcv EXCEPT ![s].pc = "close", ![s].ok = FALSE]
    /\ UNCHANGED <<activeTransfers, others, live, snd, chan, dirExists, dirWritable,
                   part, final, fsData>>

(* RecvRename with a catch block that only reports: a failed rename does   *)
(* not demote the transfer                                                 *)
RecvRename_IgnoresFailure(s) ==
    /\ s \in live
    /\ rcv[s].pc = "close"
    /\ IF rcv[s].ok
       THEN \E throws \in BOOLEAN :
               /\ (part = NoFile \/ ~dirWritable) => throws
               /\ IF throws
                  THEN /\ rcv' = [rcv EXCEPT ![s].pc = "finish",
                                             ![s].renFailed = TRUE]
                       /\ UNCHANGED <<part, final>>
                  ELSE /\ final' = part
                       /\ part' = NoFile
                       /\ rcv' = [rcv EXCEPT ![s].pc = "finish", ![s].printed = TRUE]
       ELSE /\ rcv' = [rcv EXCEPT ![s].pc = "cleanup"]
            /\ UNCHANGED <<part, final>>
    /\ UNCHANGED <<activeTransfers, others, live, snd, chan, dirExists, dirWritable, fsData>>

(* lines 210-227: tempFile.close(); on success rename(tempFilename,        *)
(* filename).  rename throws when the staging file is gone or the          *)
(* directory is not writable, and may throw for a reason that leaves       *)
(* remove working (the destination is a directory, an I/O error); the      *)
(* filesystem_error is caught and demotes the transfer                     *)
RecvRename(s) ==
    /\ s \in live
    /\ rcv[s].pc = "close"
    /\ IF rcv[s].ok
       THEN \E throws \in BOOLEAN :
               /\ (part = NoFile \/ ~dirWritable) => throws
               /\ IF throws
                  THEN /\ rcv' = [rcv EXCEPT ![s].pc = "cleanup", ![s].ok = FALSE,
                                             ![s].renFailed = TRUE]
                       /\ UNCHANGED <<part, final>>
                  ELSE /\ final' = part
                       /\ part' = NoFile
                       /\ rcv' = [rcv EXCEPT ![s].pc = "finish", ![s].printed = TRUE]
       ELSE /\ rcv' = [rcv EXCEPT ![s].pc = "cleanup"]
            /\ UNCHANGED <<part, final>>
    /\ UNCHANGED <<activeTransfers, others, live, snd, chan, dirExists, dirWritable, fsData>>

(* RecvCleanup without the remove: a failed transfer leaves its staging    *)
(* file behind                                                             *)
RecvCleanup_KeepsPart(s) ==
    /\ s \in live
    /\ rcv[s].pc = "cleanup"
    /\ rcv' = [rcv EXCEPT ![s].pc = "finish"]
    /\ UNCHANGED <<activeTransfers, others, live, snd, chan, dirExists, dirWritable,
                   part, final, fsData>>

(* lines 230-236: remove(tempFilename); its filesystem_error is caught and *)
(* only reported                                                           *)
RecvCleanup(s) ==
    /\ s \in live
    /\ rcv[s].pc = "cleanup"
    /\ part' = IF dirWritable THEN NoFile ELSE part
    /\ rcv' = [rcv EXCEPT ![s].pc = "finish",
                          ![s].rmFailed = part # NoFile /\ ~dirWritable]
    /\ UNCHANGED <<activeTransfers, others, live, snd, chan, dirExists, dirWritable,
                   final, fsData>>

(* lines 238-239: decrement and return transferSuccess *)
RecvReturn(s) ==
    /\ s \in live
    /\ rcv[s].pc = "finish"
    /\ activeTransfers' = activeTransfers - 1
    /\ rcv' = [rcv EXCEPT ![s].pc = IF rcv[s].ok THEN "ret_true" ELSE "ret_false",
                          ![s].held = 0]
    /\ UNCHANGED <<others, live, snd, chan, dirExists, dirWritable, part, final, fsData>>

----------------------------------------------------------------------------
(* The environment of a transfer *)

(* another transfer of the same process enters (lines 40, 98) *)
SiblingStart ==
    /\ others < MaxOthers
    /\ others' = others + 1
    /\ activeTransfers' = activeTransfers + 1
    /\ UNCHANGED <<live, snd, chan, rcv, dirExists, dirWritable, part, final, fsData>>

(* ... and leaves (lines 86, 238) *)
SiblingEnd ==
    /\ others > 0
    /\ others' = others - 1
    /\ activeTransfers' = activeTransfers - 1
    /\ UNCHANGED <<live, snd, chan, rcv, dirExists, dirWritable, part, final, fsData>>

(* the same under heavy load: up to MaxLoad siblings *)
LoadStart ==
    /\ others < MaxLoad
    /\ others' = others + 1
    /\ activeTransfers' = activeTransfers + 1
    /\ UNCHANGED <<live, snd, chan, rcv, dirExists, dirWritable, part, final, fsData>>

(* the directory stops being writable while a call runs (chmod, remount) *)
EnvRevokeWrite ==
    /\ dirExists
    /\ dirWritable
    /\ dirWritable' = FALSE
    /\ UNCHANGED <<activeTransfers, others, live, snd, chan, rcv, dirExists,
                   part, final, fsData>>

SendStep(s) ==
    \/ SendEnter(s) \/ SendOpenFail(s) \/ SendOpenOk(s) \/ SendRead(s)
    \/ SendAttempt(s) \/ SendAbort(s) \/ SendReturn(s) \/ SendClose(s)

RecvStep(s) ==
    \/ RecvEnter(s) \/ RecvValidate(s)
    \/ RecvDirsOk(s) \/ RecvDirsDenied(s) \/ RecvDirsThrow(s)
    \/ RecvTestOpen(s) \/ RecvTestRemove(s) \/ RecvOpenTemp(s)
    \/ RecvLoop(s) \/ RecvError(s) \/ RecvData(s) \/ RecvZero(s) \/ RecvGiveUp(s)
    \/ RecvRename(s) \/ RecvCleanup(s) \/ RecvReturn(s)

----------------------------------------------------------------------------
(* The worker pool (src/src/ThreadPool.cpp).  Threads: the workers, the    *)
(* thread that destroys the pool, and one thread per enqueue call.  stop   *)
(* and tasks are touched only inside unique_lock scopes (lines 8-20,       *)
(* 28-31, 48-51) and no thread blocks or calls out while it holds          *)
(* queue_mutex except in condition.wait, which releases it; so each        *)
(* critical section is one step and the steps are serialised as the mutex  *)
(* serialises them.  The condition variable is the set of blocked workers; *)
(* a woken worker has left the set and tests the wait predicate again      *)
(* under the mutex.                                                        *)

Workers == 1..NumWorkers
Tasks == 1..NumTasks
NoTask == 0

InitPool ==
    /\ stop = FALSE
    /\ tasks = <<>>
    /\ waiters = {}
    /\ wpc = [w \in Workers |-> "lock"]
    /\ wtask = [w \in Workers |-> NoTask]
    /\ dpc = "idle"
    /\ joined = 0
    /\ epc = [t \in Tasks |-> "idle"]
    /\ late = [t \in Tasks |-> FALSE]
    /\ early = {}
    /\ ran = [t \in Tasks |-> 0]

(* lines 9-12: under the lock the predicate stop || !tasks.empty() is      *)
(* false: wait releases the mutex and blocks the worker                    *)
W_Wait(w) ==
    /\ wpc[w] = "lock"
    /\ ~(stop \/ tasks # <<>>)
    /\ waiters' = waiters \cup {w}
    /\ wpc' = [wpc EXCEPT ![w] = "waiting"]
    /\ UNCHANGED <<stop, tasks, wtask, dpc, joined, epc, late, early, ran>>

(* a wake-up nobody sent, which condition_variable::wait allows *)
W_Spurious(w) ==
    /\ wpc[w] = "waiting"
    /\ w \in waiters
    /\ waiters' = waiters \ {w}
    /\ wpc' = [wpc EXCEPT ![w] = "lock"]
    /\ UNCHANGED <<stop, tasks, wtask, dpc, joined, epc, late, early, ran>>

(* W_Take with the exit test reduced to `if (stop) return;`: a stopped     *)
(* worker leaves although tasks are queued                                 *)
W_Take_ExitOnStop(w) ==
    /\ wpc[w] = "lock"
    /\ stop \/ tasks # <<>>
    /\ IF stop
       THEN /\ wpc' = [wpc EXCEPT ![w] = "exited"]
            /\ UNCHANGED <<tasks, wtask>>
       ELSE /\ wtask' = [wtask EXCEPT ![w] = Head(tasks)]
            /\ tasks' = Tail(tasks)
            /\ wpc' = [wpc EXCEPT ![w] = "run"]
    /\ UNCHANGED <<stop, waiters, dpc, joined, epc, late, early, ran>>

(* W_Take by a worker that need not have ended the task it holds: the     *)
(* loop of line 6 re-entered before task() of line 21 returned             *)
W_Take_WhileRunning(w) ==
    /\ wpc[w] \in {"lock", "run"}
    /\ stop \/ tasks # <<>>
    /\ IF stop /\ tasks = <<>>
       THEN /\ wpc' = [wpc EXCEPT ![w] = "exited"]
            /\ UNCHANGED <<tasks, wtask>>
       ELSE /\ wtask' = [wtask EXCEPT ![w] = Head(tasks)]
            /\ tasks' = Tail(tasks)
            /\ wpc' = [wpc EXCEPT ![w] = "run"]
    /\ UNCHANGED <<stop, waiters, dpc, joined, epc, late, early, ran>>

(* W_Take without line 19: the task is taken and stays queued *)
W_Take_NoPop(w) ==
    /\ wpc[w] = "lock"
    /\ stop \/ tasks # <<>>
    /\ IF stop /\ tasks = <<>>
       THEN /\ wpc' = [wpc EXCEPT ![w] = "exited"]
            /\ UNCHANGED <<tasks, wtask>>
       ELSE /\ wtask' = [wtask EXCEPT ![w] = Head(tasks)]
            /\ tasks' = tasks
            /\ wpc' = [wpc EXCEPT ![w] = "run"]
    /\ UNCHANGED <<stop, waiters, dpc, joined, epc, late, early, ran>>

(* W_Take popping the newest task: tasks.back() in place of tasks.front()  *)
W_Take_Newest(w) ==
    /\ wpc[w] = "lock"
    /\ stop \/ tasks # <<>>
    /\ IF stop /\ tasks = <<>>
       THEN /\ wpc' = [wpc EXCEPT ![w] = "exited"]
            /\ UNCHANGED <<tasks, wtask>>
       ELSE /\ wtask' = [wtask EXCEPT ![w] = tasks[Len(tasks)]]
            /\ tasks' = SubSeq(tasks, 1, Len(tasks) - 1)
            /\ wpc' = [wpc EXCEPT ![w] = "run"]
    /\ UNCHANGED <<stop, waiters, dpc, joined, epc, late, early, ran>>

(* lines 9-20: under the lock the predicate is true: leave if stopped and  *)
(* drained, else pop the front task; the lock goes out of scope either way *)
W_Take(w) ==
    /\ wpc[w] = "lock"
    /\ stop \/ tasks # <<>>
    /\ IF stop /\ tasks = <<>>
       THEN /\ wpc' = [wpc EXCEPT ![w] = "exited"]
            /\ UNCHANGED <<tasks, wtask>>
       ELSE /\ wtask' = [wtask EXCEPT ![w] = Head(tasks)]
            /\ tasks' = Tail(tasks)
            /\ wpc' = [wpc EXCEPT ![w] = "run"]
    /\ UNCHANGED <<stop, waiters, dpc, joined, epc, late, early, ran>>

(* line 21: task() runs to its end, outside the lock *)
W_Run(w) ==
    /\ wpc[w] = "run"
    /\ ran' = [ran EXCEPT ![wtask[w]] = @ + 1]
    /\ wtask' = [wtask EXCEPT ![w] = NoTask]
    /\ wpc' = [wpc EXCEPT ![w] = "lock"]
    /\ UNCHANGED <<stop, tasks, waiters, dpc, joined, epc, late, early>>

(* line 27: the pool's owner begins to destroy it *)
D_Begin ==
    /\ dpc = "idle"
    /\ dpc' = "lock"
    /\ UNCHANGED <<stop, tasks, waiters, wpc, wtask, joined, epc, late, early, ran>>

(* lines 28-31: stop = true under the lock *)
D_Stop ==
    /\ dpc = "lock"
    /\ stop' = TRUE
    /\ dpc' = "notify"
    /\ UNCHANGED <<tasks, waiters, wpc, wtask, joined, epc, late, early, ran>>

(* D_NotifyAll with notify_one in place of notify_all: at most one blocked *)
(* worker is woken                                                         *)
D_NotifyAll_OnlyOne ==
    /\ dpc = "notify"
    /\ IF waiters = {}
       THEN UNCHANGED <<waiters, wpc>>
       ELSE \E w \in waiters :
               /\ waiters' = waiters \ {w}
               /\ wpc' = [wpc EXCEPT ![w] = "lock"]
    /\ dpc' = "join"
    /\ UNCHANGED <<stop, tasks, wtask, joined, epc, late, early, ran>>

(* line 32: notify_all wakes every blocked worker *)
D_NotifyAll ==
    /\ dpc = "notify"
    /\ waiters' = {}
    /\ wpc' = [w \in Workers |-> IF w \in waiters THEN "lock" ELSE wpc[w]]
    /\ dpc' = "join"
    /\ UNCHANGED <<stop, tasks, wtask, joined, epc, late, early, ran>>

(* lines 33-36: join the workers in order, each join waiting for that      *)
(* thread to have left its loop; return after the last                     *)
D_Join ==
    /\ dpc = "join"
    /\ joined < NumWorkers
    /\ wpc[joined + 1] = "exited"
    /\ joined' = joined + 1
    /\ dpc' = IF joined + 1 = NumWorkers THEN "done" ELSE "join"
    /\ UNCHANGED <<stop, tasks, waiters, wpc, wtask, epc, late, early, ran>>

(* lines 39-51: enqueue, called while the pool object still exists, wraps  *)
(* the task and emplaces it under the lock; stop is not looked at          *)
E_Push(t) ==
    /\ epc[t] = "idle"
    /\ dpc # "done"
    /\ tasks' = Append(tasks, t)
    /\ late' = [late EXCEPT ![t] = dpc # "idle"]
    /\ early' = IF stop THEN early ELSE early \cup {t}
    /\ epc' = [epc EXCEPT ![t] = "notify"]
    /\ UNCHANGED <<stop, waiters, wpc, wtask, dpc, joined, ran>>

(* E_NotifyOne without line 52: enqueue returns and wakes nobody *)
E_NotifyOne_WakesNobody(t) ==
    /\ epc[t] = "notify"
    /\ epc' = [epc EXCEPT ![t] = "done"]
    /\ UNCHANGED <<stop, tasks, waiters, wpc, wtask, dpc, joined, late, early, ran>>

(* lines 52-53: notify_one wakes one blocked worker, if any; return *)
E_NotifyOne(t) ==
    /\ epc[t] = "notify"
    /\ IF waiters = {}
       THEN UNCHANGED <<waiters, wpc>>
       ELSE \E w \in waiters :
               /\ waiters' = waiters \ {w}
               /\ wpc' = [wpc EXCEPT ![w] = "lock"]
    /\ epc' = [epc EXCEPT ![t] = "done"]
    /\ UNCHANGED <<stop, tasks, wtask, dpc, joined, late, early, ran>>

----------------------------------------------------------------------------
(* The connection handlers: FileServer::start / handleClient               *)
(* (src/src/Server.cpp) and FileNode::runServer / handleClient             *)
(* (src/src/FileNode.cpp).  A session is an accepted connection together   *)
(* with the task that handles it; session t is task t of the pool.  The    *)
(* task is the packaged_task wrapper of enqueue: an exception that leaves  *)
(* handleClient is stored in the future the caller dropped, and task()     *)
(* returns to the worker loop.                                             *)

(* closes counts the close(clientSocket) calls of the handler; prog is the *)
(* program the process runs                                                *)
HndNone(p) == [pc |-> "none", prog |-> p, closes |-> 0]

InitHandlers == hnd = [s \in AllSessions |-> HndNone("server")]

(* FileNode.cpp lines 17-22: the node is constructed with running(true);   *)
(* start() has not been called, there is no listener thread yet            *)
InitNode ==
    /\ running = TRUE
    /\ lpc = "unstarted"

(* no transfer is being timed *)
PaceIdle == [pc |-> "idle", op |-> "send", now |-> 0, total |-> 0,
             elapsed |-> 0, dur |-> 0, wake |-> 0]
InitPace == pace = PaceIdle

(* the task of session s is inside task() on some worker *)
Running(s) == \E w \in Workers : wpc[w] = "run" /\ wtask[w] = s

HandlerEnded(s) == hnd[s].pc \in {"done", "escaped"}

(* Server.cpp lines 57-66, FileNode.cpp lines 170-178: the accept loop, a  *)
(* single thread, has returned from its last enqueue and accept() yields a *)
(* new connection.  Slot t is free when it never held a session or its     *)
(* task has returned to the worker loop.                                   *)
A_Accept(t) ==
    /\ UNCHANGED <<nodeVars, paceVars>>
    /\ hnd[t].pc = "none" \/ HandlerEnded(t)
    /\ ~Running(t)
    /\ \A u \in AllSessions : epc[u] # "notify" /\ hnd[u].pc # "accepted"
    /\ activeTransfers <= MaxLoad
    /\ hnd' = [hnd EXCEPT ![t].pc = "accepted", ![t].closes = 0]
    /\ epc' = [epc EXCEPT ![t] = "idle"]
    /\ ran' = [ran EXCEPT ![t] = 0]
    /\ snd' = [snd EXCEPT ![t] = SndIdle]
    /\ rcv' = [rcv EXCEPT ![t] = RcvIdle]
    /\ chan' = [chan EXCEPT ![t] = [data |-> <<>>, closed |-> FALSE]]
    /\ UNCHANGED <<activeTransfers, others, live, dirExists, dirWritable, part, final,
                   fsData, chunkVars, stop, tasks, waiters, wpc, wtask, dpc, joined,
                   late, early>>

(* Server.cpp lines 67-69, FileNode.cpp lines 180-182: enqueue the task *)
A_Enqueue(t) ==
    /\ UNCHANGED <<nodeVars, paceVars>>
    /\ hnd[t].pc = "accepted"
    /\ E_Push(t)
    /\ hnd' = [hnd EXCEPT ![t].pc = "queued"]
    /\ UNCHANGED <<xferVars, chunkVars>>

(* Server.cpp lines 84-117: the request is read with unchecked recv calls. *)
(* The vector of pathLen + 1 bytes at line 93 throws length_error or       *)
(* bad_alloc when the length field is too large; 'S' leads to receiveFile  *)
(* on the path the client named; 'R' on a missing file closes and returns  *)
(* (lines 113-117), on an existing file leads to sendFile; any other       *)
(* command goes straight to line 126.                                      *)
S_Request(s) ==
    /\ UNCHANGED <<nodeVars, paceVars>>
    /\ hnd[s].prog = "server"
    /\ hnd[s].pc = "queued"
    /\ Running(s)
    /\ \E req \in {"throws", "store", "retrieve", "notfound", "unknown"},
          nm \in {"empty", "bare", "path"}, n \in 0..HandlerFileLen :
          /\ req # "store" => nm = "path"
          /\ req \notin {"store", "retrieve"} => n = 0
          /\ hnd' = [hnd EXCEPT ![s].pc = CASE req = "throws" -> "escaped"
                                            [] req = "store" -> "store"
                                            [] req = "retrieve" -> "retrieve"
                                            [] req = "notfound" -> "done"
                                            [] OTHER -> "close",
                                ![s].closes = IF req = "notfound" THEN @ + 1 ELSE @]
          /\ rcv' = [rcv EXCEPT ![s].name = nm]
          /\ snd' = [snd EXCEPT ![s].file = FileOf(n)]
          /\ chan' = [chan EXCEPT ![s] =
                         IF req = "store" THEN [data |-> FileOf(n), closed |-> TRUE]
                         ELSE [data |-> <<>>, closed |-> req = "notfound"]]
    /\ UNCHANGED <<activeTransfers, others, live, dirExists, dirWritable, part, final,
                   fsData, chunkVars, poolVars>>

(* FileNode.cpp lines 74-101: a failed read of the operation byte (75-78), *)
(* a failure of create_directories (83-89) and a failed read of the file   *)
(* name (94-97) close the socket and return; 'S' leads to receiveFile on a *)
(* path under ./archive/; any other operation goes straight to line 111.   *)
N_Request(s) ==
    /\ UNCHANGED <<nodeVars, paceVars>>
    /\ hnd[s].prog = "node"
    /\ hnd[s].pc = "queued"
    /\ Running(s)
    /\ \E req \in {"badread", "dirsthrow", "badname", "store", "unknown"},
          n \in 0..HandlerFileLen :
          /\ req # "store" => n = 0
          /\ hnd' = [hnd EXCEPT ![s].pc = CASE req = "store" -> "store"
                                            [] req = "unknown" -> "close"
                                            [] OTHER -> "done",
                                ![s].closes = IF req \in {"store", "unknown"}
                                              THEN @ ELSE @ + 1]
          /\ rcv' = [rcv EXCEPT ![s].name = "path"]
          /\ chan' = [chan EXCEPT ![s] =
                         IF req = "store" THEN [data |-> FileOf(n), closed |-> TRUE]
                         ELSE [data |-> <<>>, closed |-> req # "unknown"]]
    /\ UNCHANGED <<activeTransfers, others, live, snd, dirExists, dirWritable, part,
                   final, fsData, chunkVars, poolVars>>

(* Server.cpp line 103, FileNode.cpp line 104: receiveFile runs *)
H_Store(s) ==
    /\ UNCHANGED <<nodeVars, paceVars>>
    /\ hnd[s].pc = "store"
    /\ RecvStep(s)
    /\ UNCHANGED <<chunkVars, poolVars, handlerVars, nodeVars, paceVars>>

(* Server.cpp line 119: sendFile runs *)
H_Retrieve(s) ==
    /\ UNCHANGED <<nodeVars, paceVars>>
    /\ hnd[s].pc = "retrieve"
    /\ \/ SendEnter(s) \/ SendOpenFail(s) \/ SendOpenOk(s) \/ SendRead(s)
       \/ SendAttempt(s) \/ SendAbort(s) \/ SendReturn(s)
    /\ UNCHANGED <<chunkVars, poolVars, handlerVars, nodeVars, paceVars>>

(* Server.cpp line 103, FileNode.cpp line 104: the call of receiveFile is  *)
(* in no try block, so an exception it lets out leaves handleClient too,   *)
(* past the close at the end                                               *)
H_Escape(s) ==
    /\ UNCHANGED <<nodeVars, paceVars>>
    /\ hnd[s].pc = "store"
    /\ rcv[s].pc = "thrown"
    /\ hnd' = [hnd EXCEPT ![s].pc = "escaped"]
    /\ UNCHANGED <<xferVars, chunkVars, poolVars>>

(* Server.cpp lines 103-108, 119-126, FileNode.cpp lines 104-111: the      *)
(* transfer returned, or there was none: report, close(clientSocket),      *)
(* return                                                                  *)
H_Close(s) ==
    /\ UNCHANGED <<nodeVars, paceVars>>
    /\ \/ hnd[s].pc = "close"
       \/ hnd[s].pc = "store" /\ rcv[s].pc \in {"ret_true", "ret_false"}
       \/ hnd[s].pc = "retrieve" /\ snd[s].pc \in {"ret_true", "ret_false"}
    /\ hnd' = [hnd EXCEPT ![s].pc = "done", ![s].closes = @ + 1]
    /\ chan' = [chan EXCEPT ![s].closed = TRUE]
    /\ UNCHANGED <<activeTransfers, others, live, snd, rcv, dirExists, dirWritable,
                   part, final, fsData, chunkVars, poolVars>>

(* ThreadPool.cpp line 21 with a handler as the task: task() returns when  *)
(* handleClient has returned or has let an exception out                   *)
W_RunHandler(w) ==
    /\ wpc[w] = "run"
    /\ HandlerEnded(wtask[w])
    /\ W_Run(w)
    /\ UNCHANGED <<xferVars, chunkVars, handlerVars, nodeVars, paceVars>>

----------------------------------------------------------------------------
(* The counter as calculateChunkSize sees it: any session of the process   *)
(* may enter (lines 40, 98) or leave (lines 44, 73, 86, 238) between calls *)

CounterUp ==
    /\ count < MaxCount
    /\ count' = count + 1
    /\ UNCHANGED chunk

CounterDown ==
    /\ count > 0
    /\ count' = count - 1
    /\ UNCHANGED chunk

ChunkCall ==
    /\ chunk' = calculateChunkSize(count)
    /\ UNCHANGED count

InitChunk ==
    /\ count = 0
    /\ chunk = -1

----------------------------------------------------------------------------
(* Initial states and specifications *)

InitFs ==
    /\ dirExists \in BOOLEAN
    /\ dirWritable \in BOOLEAN
    /\ part \in (IF dirExists THEN {NoFile, Stale} ELSE {NoFile})
    /\ final = NoFile
    /\ fsData = [i \in Inodes |-> <<>>]

InitXfer(sessions) ==
    /\ InitFs
    /\ activeTransfers = 0
    /\ others = 0
    /\ live = sessions
    /\ \E n \in 0..MaxFileLen :
          snd = [s \in AllSessions |-> [SndIdle EXCEPT !.file = FileOf(n)]]
    /\ chan = [s \in AllSessions |-> [data |-> <<>>, closed |-> FALSE]]
    /\ \E nm \in {"empty", "bare", "path"} :
          /\ rcv = [s \in AllSessions |-> [RcvIdle EXCEPT !.name = nm]]
          /\ nm # "path" => dirExists

(* one session: a sender and a receiver joined by a channel, with sibling  *)
(* transfers coming and going                                              *)
Init ==
    /\ InitXfer({1})
    /\ InitChunk
    /\ InitPool
    /\ InitHandlers /\ InitNode /\ InitPace

Next ==
    \/ (SendStep(1) /\ UNCHANGED <<chunkVars, poolVars, handlerVars, nodeVars, paceVars>>)
    \/ (RecvStep(1) /\ UNCHANGED <<chunkVars, poolVars, handlerVars, nodeVars, paceVars>>)
    \/ (SiblingStart /\ UNCHANGED <<chunkVars, poolVars, handlerVars, nodeVars, paceVars>>)
    \/ (SiblingEnd /\ UNCHANGED <<chunkVars, poolVars, handlerVars, nodeVars, paceVars>>)
    \/ (EnvRevokeWrite /\ UNCHANGED <<chunkVars, poolVars, handlerVars, nodeVars, paceVars>>)

Spec == Init /\ [][Next]_vars

(* two sessions that store to the same destination path, as two clients   *)
(* of one server may ask.  Both senders have already sent their file of    *)
(* RaceFileLen bytes and closed (sendFile returned true), so the bytes     *)
(* wait in the channels and only the receiving calls interleave.           *)
RaceFileLen == 1

SndDone(n) == [SndIdle EXCEPT !.pc = "ret_true", !.file = FileOf(n), !.pos = n,
                              !.eof = TRUE, !.buf = FileOf(n), !.opened = TRUE,
                              !.tries = 1, !.sent = TRUE]

InitRace ==
    /\ InitFs
    /\ activeTransfers = 0
    /\ others = 0
    /\ live = AllSessions
    /\ snd = [s \in AllSessions |-> SndDone(RaceFileLen)]
    /\ chan = [s \in AllSessions |-> [data |-> FileOf(RaceFileLen), closed |-> TRUE]]
    /\ \E nm \in {"bare", "path"} :
          /\ rcv = [s \in AllSessions |-> [RcvIdle EXCEPT !.name = nm]]
          /\ nm # "path" => dirExists
    /\ InitChunk
    /\ InitPool
    /\ InitHandlers /\ InitNode /\ InitPace

NextRace ==
    \/ \E s \in AllSessions : RecvStep(s) /\ UNCHANGED <<chunkVars, poolVars, handlerVars, nodeVars, paceVars>>
    \/ (EnvRevokeWrite /\ UNCHANGED <<chunkVars, poolVars, handlerVars, nodeVars, paceVars>>)

SpecRace == InitRace /\ [][NextRace]_vars

(* one call under load: between any two of its steps up to MaxLoad other   *)
(* transfers come and go.  The call is either session 1's sendFile, whose  *)
(* peer is another process, or session 2's receiveFile, whose peer has     *)
(* sent its file and closed, the bytes waiting in the socket buffer.  The  *)
(* destination directory exists, is writable and stays so.                 *)
InitLoad ==
    /\ dirExists = TRUE
    /\ dirWritable = TRUE
    /\ part = NoFile
    /\ final = NoFile
    /\ fsData = [i \in Inodes |-> <<>>]
    /\ activeTransfers = 0
    /\ others = 0
    /\ live \in {{1}, {2}}
    /\ \E n \in 0..MaxFileLen :
          /\ snd = [s \in AllSessions |->
                      IF s = 1 THEN [SndIdle EXCEPT !.file = FileOf(n)] ELSE SndDone(n)]
          /\ chan = [s \in AllSessions |->
                      IF s = 1 THEN [data |-> <<>>, closed |-> FALSE]
                               ELSE [data |-> FileOf(n), closed |-> TRUE]]
    /\ rcv = [s \in AllSessions |-> RcvIdle]
    /\ InitChunk
    /\ InitPool
    /\ InitHandlers /\ InitNode /\ InitPace

NextLoad ==
    \/ (SendStep(1) /\ UNCHANGED <<chunkVars, poolVars, handlerVars, nodeVars, paceVars>>)
    \/ (RecvStep(2) /\ UNCHANGED <<chunkVars, poolVars, handlerVars, nodeVars, paceVars>>)
    \/ (LoadStart /\ UNCHANGED <<chunkVars, poolVars, handlerVars, nodeVars, paceVars>>)
    \/ (SiblingEnd /\ UNCHANGED <<chunkVars, poolVars, handlerVars, nodeVars, paceVars>>)

SpecLoad == InitLoad /\ [][NextLoad]_vars

(* a process that serves connections: the accept loop hands each accepted  *)
(* connection to the pool, whose workers run handleClient.  The process is *)
(* the server or a peer node; the pool is not destroyed while it serves;   *)
(* the directory the stored files go to exists and may stop being          *)
(* writable.  One connection is accepted, in either session slot.          *)
InitHandler ==
    /\ InitFs
    /\ dirExists
    /\ activeTransfers = 0
    /\ others = 0
    /\ live = AllSessions
    /\ snd = [s \in AllSessions |-> SndIdle]
    /\ chan = [s \in AllSessions |-> [data |-> <<>>, closed |-> FALSE]]
    /\ rcv = [s \in AllSessions |-> RcvIdle]
    /\ InitChunk
    /\ InitPool
    /\ \E p \in {"server", "node"} : hnd = [s \in AllSessions |-> HndNone(p)]
    /\ InitNode /\ InitPace

NextHandler ==
    \/ \E t \in AllSessions : (\A u \in AllSessions : hnd[u].pc = "none") /\ A_Accept(t)
    \/ \E t \in AllSessions : A_Enqueue(t)
    \/ \E t \in AllSessions : E_NotifyOne(t) /\ UNCHANGED <<xferVars, chunkVars, handlerVars, nodeVars, paceVars>>
    \/ \E w \in Workers : W_Wait(w) /\ UNCHANGED <<xferVars, chunkVars, handlerVars, nodeVars, paceVars>>
    \/ \E w \in Workers : W_Take(w) /\ UNCHANGED <<xferVars, chunkVars, handlerVars, nodeVars, paceVars>>
    \/ \E w \in Workers : W_RunHandler(w)
    \/ \E s \in AllSessions : S_Request(s)
    \/ \E s \in AllSessions : N_Request(s)
    \/ \E s \in AllSessions : H_Store(s)
    \/ \E s \in AllSessions : H_Retrieve(s)
    \/ \E s \in AllSessions : H_Escape(s)
    \/ \E s \in AllSessions : H_Close(s)
    \/ (EnvRevokeWrite /\ UNCHANGED <<chunkVars, poolVars, handlerVars, nodeVars, paceVars>>)

SpecHandler == InitHandler /\ [][NextHandler]_vars

(* a server that keeps serving: a slot takes the next connection when its  *)
(* session has ended, until the counter passes MaxLoad.  The server runs   *)
(* in a directory it may not write to, which holds a writable staging file *)
(* left by an earlier run; clients store under a bare file name or         *)
(* retrieve an existing file.                                              *)
InitServe ==
    /\ dirExists = TRUE
    /\ dirWritable = FALSE
    /\ part = Stale
    /\ final = NoFile
    /\ fsData = [i \in Inodes |-> <<>>]
    /\ activeTransfers = 0
    /\ others = 0
    /\ live = AllSessions
    /\ snd = [s \in AllSessions |-> SndIdle]
    /\ chan = [s \in AllSessions |-> [data |-> <<>>, closed |-> FALSE]]
    /\ rcv = [s \in AllSessions |-> RcvIdle]
    /\ InitChunk
    /\ InitPool
    /\ InitHandlers /\ InitNode /\ InitPace

NextServe ==
    \/ \E t \in AllSessions : A_Accept(t)
    \/ \E t \in AllSessions : A_Enqueue(t)
    \/ \E t \in AllSessions : E_NotifyOne(t) /\ UNCHANGED <<xferVars, chunkVars, handlerVars, nodeVars, paceVars>>
    \/ \E w \in Workers : W_Wait(w) /\ UNCHANGED <<xferVars, chunkVars, handlerVars, nodeVars, paceVars>>
    \/ \E w \in Workers : W_Take(w) /\ UNCHANGED <<xferVars, chunkVars, handlerVars, nodeVars, paceVars>>
    \/ \E w \in Workers : W_RunHandler(w)
    \/ \E s \in AllSessions :
          /\ S_Request(s)
          /\ \/ hnd'[s].pc = "store" /\ rcv'[s].name = "bare"
             \/ hnd'[s].pc = "retrieve" /\ snd'[s].file # <<>>
    \/ \E s \in AllSessions : H_Store(s)
    \/ \E s \in AllSessions : H_Retrieve(s)
    \/ \E s \in AllSessions : H_Escape(s)
    \/ \E s \in AllSessions : H_Close(s)

SpecServe == InitServe /\ [][NextServe]_vars

(* no transfer in progress, nothing at the destination *)
InitXferIdle ==
    /\ activeTransfers = 0
    /\ others = 0
    /\ live = {}
    /\ snd = [s \in AllSessions |-> SndIdle]
    /\ chan = [s \in AllSessions |-> [data |-> <<>>, closed |-> FALSE]]
    /\ rcv = [s \in AllSessions |-> RcvIdle]
    /\ dirExists = TRUE
    /\ dirWritable = TRUE
    /\ part = NoFile
    /\ final = NoFile
    /\ fsData = [i \in Inodes |-> <<>>]

(* calculateChunkSize called at any value the counter can take *)
InitChunkSpec == InitXferIdle /\ InitChunk /\ InitPool /\ InitHandlers /\ InitNode /\ InitPace

NextChunk ==
    \/ (CounterUp /\ UNCHANGED <<xferVars, poolVars, handlerVars, nodeVars, paceVars>>)
    \/ (CounterDown /\ UNCHANGED <<xferVars, poolVars, handlerVars, nodeVars, paceVars>>)
    \/ (ChunkCall /\ UNCHANGED <<xferVars, poolVars, handlerVars, nodeVars, paceVars>>)

SpecChunk == InitChunkSpec /\ [][NextChunk]_vars

(* the pool: NumWorkers workers, NumTasks enqueue calls at any time while  *)
(* the pool exists, and its destruction at any time                        *)
InitPoolSpec == InitXferIdle /\ InitChunk /\ InitPool /\ InitHandlers /\ InitNode /\ InitPace

WorkerStep(w) == W_Wait(w) \/ W_Take(w) \/ W_Run(w)
DestroyStep == D_Stop \/ D_NotifyAll \/ D_Join

NextPool ==
    \/ \E w \in Workers : WorkerStep(w) /\ UNCHANGED <<xferVars, chunkVars, handlerVars, nodeVars, paceVars>>
    \/ \E w \in Workers : W_Spurious(w) /\ UNCHANGED <<xferVars, chunkVars, handlerVars, nodeVars, paceVars>>
    \/ (D_Begin /\ UNCHANGED <<xferVars, chunkVars, handlerVars, nodeVars, paceVars>>)
    \/ (DestroyStep /\ UNCHANGED <<xferVars, chunkVars, handlerVars, nodeVars, paceVars>>)
    \/ \E t \in Tasks : E_Push(t) /\ UNCHANGED <<xferVars, chunkVars, handlerVars, nodeVars, paceVars>>
    \/ \E t \in Tasks : E_NotifyOne(t) /\ UNCHANGED <<xferVars, chunkVars, handlerVars, nodeVars, paceVars>>

SpecPool == InitPoolSpec /\ [][NextPool]_vars

(* Every thread that can take a step eventually takes one, and tasks end.  *)
(* Nothing is assumed about wake-ups nobody sent, about when the pool is   *)
(* destroyed, or about whether enqueue is called at all.                   *)
PoolFairness ==
    /\ \A w \in Workers : WF_vars(WorkerStep(w) /\ UNCHANGED <<xferVars, chunkVars, handlerVars, nodeVars, paceVars>>)
    /\ WF_vars(DestroyStep /\ UNCHANGED <<xferVars, chunkVars, handlerVars, nodeVars, paceVars>>)
    /\ \A t \in Tasks : WF_vars(E_NotifyOne(t) /\ UNCHANGED <<xferVars, chunkVars, handlerVars, nodeVars, paceVars>>)

SpecPoolFair == InitPoolSpec /\ [][NextPool]_vars /\ PoolFairness

----------------------------------------------------------------------------
(* Claims about the transfer engine *)

SndEnded(s) == snd[s].pc \in {"ret_true", "ret_false"}
RcvEnded(s) == rcv[s].pc \in {"ret_true", "ret_false", "thrown"}
SndRunning(s) == snd[s].pc \notin {"idle", "ret_true", "ret_false"}
InFlight == Cardinality({s \in live : SndRunning(s)})
            + Cardinality({s \in live : RcvRunning(s)})
OwnInodes(s) == {TestIno(s), TempIno(s)}

(* C1: every sendFile / receiveFile call that has ended, by a return or by *)
(* an exception, has matched its increment with a decrement.               *)
C1_BracketOnEveryExit ==
    \A s \in live :
        /\ SndEnded(s) => snd[s].held = 0
        /\ RcvEnded(s) => rcv[s].held = 0

(* C2: the counter is never negative, equals the number of calls that are  *)
(* between their increment and their decrement, and reads 0 when no        *)
(* transfer is in flight.                                                  *)
C2_CounterIsInFlight ==
    /\ activeTransfers >= 0
    /\ activeTransfers = others + InFlight
    /\ (others = 0 /\ InFlight = 0) => activeTransfers = 0

(* C4: when sendFile and receiveFile of a session have both returned true, *)
(* and every write to the staging file succeeded, the receiver's final     *)
(* file is byte-identical to the sender's file.                            *)
C4_RoundTrip ==
    \A s \in live :
        (snd[s].pc = "ret_true" /\ rcv[s].pc = "ret_true" /\ ~rcv[s].bad)
            => (final # NoFile /\ fsData[final] = snd[s].file)

(* C6: when the sender gave up before the whole file was sent and its end  *)
(* of the channel was closed, a receiveFile that returns has returned      *)
(* failure, the final path does not exist and no .part of this call        *)
(* remains.                                                                *)
ClosedMidTransfer(s) ==
    /\ snd[s].opened
    /\ snd[s].pc = "ret_false"
    /\ chan[s].closed
    /\ rcv[s].got # snd[s].file
C6_FailureOnEarlyClose ==
    \A s \in live :
        (ClosedMidTransfer(s) /\ rcv[s].pc \in {"ret_true", "ret_false"})
            => (rcv[s].pc = "ret_false" /\ final = NoFile
                /\ part \notin OwnInodes(s))

(* C8: when the parent directory is not writable as the call begins,       *)
(* receiveFile creates no staging file, reads no byte from the session,    *)
(* and ends by returning failure.                                          *)
C8_PermissionGate ==
    \A s \in live :
        (rcv[s].pc # "idle" /\ ~rcv[s].entryW)
            => /\ ~rcv[s].made
               /\ ~rcv[s].reads
               /\ RcvEnded(s) => rcv[s].pc = "ret_false"

(* C5: at the moment receiveFile returns true, the final path exists and   *)
(* holds every byte the call received, in order, and <dest>.part does not  *)
(* exist.                                                                  *)
ReturnsTrue(s) == rcv[s].pc = "finish" /\ rcv'[s].pc = "ret_true"
ReturnsFalse(s) == rcv[s].pc # "ret_false" /\ rcv'[s].pc = "ret_false"
C5_SuccessMeansComplete ==
    [][\A s \in live :
         ReturnsTrue(s) =>
            (final' # NoFile /\ fsData'[final'] = rcv'[s].got /\ part' = NoFile)]_vars

(* C7: at the moment receiveFile returns false, the file at the final path *)
(* (if any) is not one this call created, and no .part this call created   *)
(* remains.                                                                *)
C7_FailureLeavesNothing ==
    [][\A s \in live :
         ReturnsFalse(s) =>
            (final' \notin OwnInodes(s) /\ part' \notin OwnInodes(s))]_vars

(* C7, amended: ... when no other receiveFile call on the same destination *)
(* ran during this one, and unless the removal of the staging file itself  *)
(* failed.                                                                 *)
C7_FailureLeavesNothingUnlessRemoveFails ==
    [][\A s \in live :
         (ReturnsFalse(s) /\ ~rcv'[s].overlap) =>
            /\ final' \notin OwnInodes(s)
            /\ part' \in OwnInodes(s) => rcv'[s].rmFailed]_vars

(* a call that received bytes, exhausted its retries and cleaned up *)
C7_Witness ==
    \E s \in live :
        /\ rcv[s].pc = "ret_false"
        /\ ~rcv[s].overlap
        /\ rcv[s].made
        /\ rcv[s].got # <<>>
        /\ rcv[s].retries = MAX_RETRIES
        /\ part = NoFile

(* C3: a call of calculateChunkSize made while the counter is at least 1   *)
(* returns at least 1.                                                     *)
C3_ChunkSizePositive ==
    [][(ChunkCall /\ count >= 1) => chunk' >= 1]_vars

----------------------------------------------------------------------------
(* Claims about the worker pool *)

(* C9: once the destructor has returned, every task pushed before stop was *)
(* set has been run and is no longer queued, and every worker has left its *)
(* loop.                                                                   *)
InQueue(t) == \E i \in 1..Len(tasks) : tasks[i] = t
C9_ShutdownDrainsAndJoins ==
    dpc = "done" =>
        /\ \A t \in early : ran[t] >= 1 /\ ~InQueue(t)
        /\ \A w \in Workers : wpc[w] = "exited"

(* the pool was destroyed after two tasks were queued in time *)
C9_Witness ==
    /\ dpc = "done"
    /\ Cardinality(early) >= 2
    /\ \A t \in early : ran[t] = 1

(* C10: once an enqueue call has pushed after the destructor began, the    *)
(* run reaches the point where the destructor has returned and every such  *)
(* enqueue call has returned.                                              *)
C10_LateEnqueueNoDeadlock ==
    (\E t \in Tasks : late[t])
        ~> (dpc = "done" /\ \A t \in Tasks : late[t] => epc[t] = "done")

(* the destructor returned although a late call pushed its task *)
C10_Witness ==
    /\ dpc = "done"
    /\ \E t \in Tasks : late[t] /\ epc[t] = "done" /\ (InQueue(t) \/ ran[t] = 1)

----------------------------------------------------------------------------
(* Claims about the retry budgets, the end of transmission and chunking *)

(* C13: in sendFile a chunk gets at most MAX_RETRIES send attempts; the    *)
(* count starts at zero for every chunk; a call whose source opened        *)
(* returns false only with MAX_RETRIES failed attempts on the current      *)
(* chunk, and with that many failures its only step is that return; it     *)
(* returns true only with fewer; after returning false it sends nothing.   *)
C13_RetryBudgetPerChunk ==
    [][\A s \in live :
         /\ snd'[s].tries <= MAX_RETRIES
         /\ (snd[s].pc = "loop" /\ snd'[s].pc = "send")
               => (snd'[s].retries = 0 /\ snd'[s].tries = 0)
         /\ (snd[s].opened /\ snd[s].pc # "ret_false" /\ snd'[s].pc = "ret_false")
               => (snd[s].retries = MAX_RETRIES /\ snd[s].tries = MAX_RETRIES)
         /\ (snd[s].retries = MAX_RETRIES /\ snd'[s] # snd[s])
               => snd'[s].pc = "ret_false"
         /\ (snd[s].pc # "ret_true" /\ snd'[s].pc = "ret_true")
               => snd[s].retries < MAX_RETRIES
         /\ snd[s].pc = "ret_false"
               => (snd'[s] = snd[s] /\ Len(chan'[s].data) <= Len(chan[s].data))]_vars

(* sendFile gave up on a later chunk after an earlier one was accepted *)
C13_Witness ==
    \E s \in live :
        /\ snd[s].pc = "ret_false"
        /\ snd[s].tries = MAX_RETRIES
        /\ Len(snd[s].buf) > 0
        /\ snd[s].pos > Len(snd[s].buf)

(* C14: in receiveFile the error count starts at zero for every chunk and  *)
(* never passes MAX_RETRIES; recv is called only below that count; an      *)
(* error result keeps the call in the attempt loop; a result with data     *)
(* goes on to the next chunk; with MAX_RETRIES errors the call's only step *)
(* is to give up, and from there it can only clean up and return false.    *)
C14_ReadRetriedUpToBudget ==
    [][\A s \in live :
         /\ rcv'[s].retries <= MAX_RETRIES
         /\ (rcv[s].pc = "loop" /\ rcv'[s].pc = "recv") => rcv'[s].retries = 0
         /\ (rcv'[s].retries # rcv[s].retries \/ rcv'[s].got # rcv[s].got
                \/ rcv'[s].eot # rcv[s].eot)
               => (rcv[s].pc \in {"loop", "recv"} /\ rcv[s].retries < MAX_RETRIES)
         /\ (rcv[s].pc = "recv" /\ rcv'[s].retries = rcv[s].retries + 1)
               => (rcv'[s].pc = "recv" /\ rcv'[s].ok)
         /\ (rcv[s].pc = "recv" /\ rcv'[s].got # rcv[s].got)
               => (rcv'[s].pc = "loop" /\ rcv'[s].ok)
         /\ (rcv[s].pc = "recv" /\ rcv[s].retries = MAX_RETRIES
                /\ rcv'[s].pc # rcv[s].pc)
               => (rcv'[s].pc = "close" /\ ~rcv'[s].ok)
         /\ (rcv'[s].retries = MAX_RETRIES /\ rcv'[s].pc # "recv")
               => (~rcv'[s].ok
                   /\ rcv'[s].pc \in {"close", "cleanup", "finish", "ret_false"})]_vars

(* a call that took data after two errors, then failed on three in a row *)
C14_Witness ==
    \E s \in live :
        /\ rcv[s].pc = "ret_false"
        /\ rcv[s].retries = MAX_RETRIES
        /\ rcv[s].got # <<>>

(* C15: a zero-length read takes receiveFile out of the receive loop with  *)
(* the transfer marked successful; from then on the call reads nothing;    *)
(* its next step closes the staging file and renames it to the final path, *)
(* or the rename throws; and it returns true unless the rename threw.      *)
C15_ZeroReadEndsTransfer ==
    [][\A s \in live :
         /\ (~rcv[s].eot /\ rcv'[s].eot) => (rcv'[s].pc = "close" /\ rcv'[s].ok)
         /\ rcv[s].eot
               => /\ rcv'[s].got = rcv[s].got
                  /\ rcv'[s].retries = rcv[s].retries
                  /\ rcv'[s].pc \notin {"loop", "recv"}
         /\ (rcv[s].eot /\ rcv[s].pc = "close" /\ rcv'[s].pc # "close")
               => \/ /\ rcv'[s].pc = "finish"
                     /\ final' = part
                     /\ part' = NoFile
                     /\ final' # NoFile
                  \/ rcv'[s].renFailed
         /\ (rcv[s].eot /\ rcv[s].pc = "finish" /\ rcv'[s].pc # "finish")
               => rcv'[s].pc = (IF rcv[s].renFailed THEN "ret_false" ELSE "ret_true")]_vars

(* a call returned true after data and then a zero-length read *)
C15_Witness ==
    \E s \in live :
        /\ rcv[s].pc = "ret_true"
        /\ rcv[s].eot
        /\ rcv[s].got # <<>>
        /\ ~rcv[s].overlap
        /\ final = TempIno(s)

(* C16: an attempt of sendFile's retry loop succeeds exactly when the       *)
(* channel took the whole chunk in that one send() call; an attempt that   *)
(* put fewer bytes on the channel is a failed attempt, it leaves the chunk *)
(* unchanged, and what any attempt puts on the channel starts at the first *)
(* byte of the chunk, so a retry after a partial accept sends the chunk    *)
(* again from its beginning.                                               *)
C16_PartialAcceptResendsWholeChunk ==
    [][\A s \in live :
         (snd[s].pc = "send" /\ snd'[s].tries = snd[s].tries + 1)
            => LET k == Len(chan'[s].data) - Len(chan[s].data)
               IN  /\ k \in 0..Len(snd[s].buf)
                   /\ chan'[s].data = chan[s].data \o SubSeq(snd[s].buf, 1, k)
                   /\ snd'[s].pc = "loop" => k = Len(snd[s].buf)
                   /\ (k = Len(snd[s].buf) /\ k > 0) => snd'[s].pc = "loop"
                   /\ k < Len(snd[s].buf)
                         => /\ snd'[s].pc = "send"
                            /\ snd'[s].retries = snd[s].retries + 1
                   /\ snd'[s].buf = snd[s].buf
                   /\ snd'[s].pos = snd[s].pos]_vars

(* a chunk of three bytes went through after a partial accept: the channel *)
(* holds the accepted prefix followed by the whole chunk                   *)
C16_Witness ==
    \E s \in live :
        /\ snd[s].pc = "ret_true"
        /\ Len(snd[s].buf) = MaxFileLen
        /\ snd[s].tries = 2
        /\ chan[s].data = SubSeq(snd[s].buf, 1, 1) \o snd[s].buf

(* C17: every iteration of the loops of sendFile and receiveFile sizes its  *)
(* chunk from the counter as it stands when the iteration begins: with k   *)
(* transfers active, 1 <= k <= 20, the sender reads 20 div k bytes or what *)
(* is left of the source, the receiver sizes its buffer to 20 div k and    *)
(* recv delivers no more than the buffer holds; alone the size is 20.      *)
C17_ChunkSizeFollowsCounter ==
    [][\A s \in live :
         LET k == activeTransfers IN
         /\ (snd[s].pc = "loop" /\ snd'[s].pc = "send" /\ k \in 1..BASE_TRANSFER_RATE)
               => /\ Len(snd'[s].buf) <= BASE_TRANSFER_RATE \div k
                  /\ Len(snd'[s].buf) =
                        Min(BASE_TRANSFER_RATE \div k, Len(snd[s].file) - snd[s].pos)
                  /\ k = 1 => Len(snd'[s].buf) = Min(20, Len(snd[s].file) - snd[s].pos)
         /\ (rcv[s].pc = "loop" /\ rcv'[s].pc = "recv" /\ k \in 1..BASE_TRANSFER_RATE)
               => /\ rcv'[s].size = BASE_TRANSFER_RATE \div k
                  /\ k = 1 => rcv'[s].size = 20
         /\ rcv[s].pc = "recv"
               => /\ Len(rcv'[s].got) - Len(rcv[s].got) <= rcv[s].size
                  /\ rcv'[s].pc = "recv" => rcv'[s].size = rcv[s].size]_vars

(* the sender's second chunk is smaller than its first, because sibling    *)
(* transfers began in between: two bytes went out while 7..10 transfers    *)
(* were active, and the next chunk is the single byte that 11 or more allow*)
C17_Witness ==
    \E s \in live :
        /\ snd[s].pc = "send"
        /\ Len(snd[s].file) = 3
        /\ chan[s].data = SubSeq(snd[s].file, 1, 2)
        /\ snd[s].buf = SubSeq(snd[s].file, 3, 3)
        /\ ~snd[s].eof
        /\ activeTransfers > 10

(* the receiver's buffer shrank from one iteration to the next *)
C17_WitnessRecv ==
    \E s \in live :
        /\ rcv[s].pc = "recv"
        /\ Len(rcv[s].got) = 2
        /\ rcv[s].size = 1
        /\ rcv[s].off = 2
        /\ Len(fsData[rcv[s].fd]) = 2

(* C18: sendFile terminates whatever the number of concurrent transfers,   *)
(* because every iteration of its loop reads at least one byte of the      *)
(* source or is the last one (it reaches the end of the source).           *)
C18_EveryIterationConsumes ==
    [][\A s \in live :
         (snd[s].pc = "loop" /\ snd'[s].pc = "send")
            => (snd'[s].pos > snd[s].pos \/ snd'[s].eof)]_vars

(* C19: when the source cannot be opened sendFile returns false at once:  *)
(* the step that finds the open failed takes back the call's increment and *)
(* returns false, and a call that ended without opening its source made no *)
(* read, no send() call and no retry, put nothing on the channel, and      *)
(* holds no increment of the counter.                                      *)
C19_OpenFailureReturnsAtOnce ==
    [][\A s \in live :
         /\ (snd[s].pc = "open" /\ snd'[s].pc # "open" /\ ~snd'[s].opened)
               => /\ snd'[s].pc = "ret_false"
                  /\ activeTransfers' = activeTransfers - 1
                  /\ chan'[s] = chan[s]
         /\ (snd'[s].pc \in {"ret_true", "ret_false"} /\ ~snd'[s].opened)
               => /\ snd'[s].pc = "ret_false"
                  /\ ~snd'[s].sent
                  /\ snd'[s].tries = 0
                  /\ snd'[s].retries = 0
                  /\ snd'[s].pos = 0
                  /\ snd'[s].held = 0
                  /\ chan'[s].data = <<>>
                  /\ activeTransfers' = others']_vars

(* a call on a non-empty source that could not be opened has returned      *)
(* false while sibling transfers are running                               *)
C19_Witness ==
    \E s \in live :
        /\ snd[s].pc = "ret_false"
        /\ ~snd[s].opened
        /\ snd[s].file # <<>>
        /\ others > 0
        /\ chan[s].closed

(* C20: when the rename of the staging file throws, receiveFile returns    *)
(* false, the content-printing step is not reached, and this call's        *)
(* staging file is gone when it returns.                                   *)
C20_RenameFailureDeletesStaging ==
    [][\A s \in live :
         (rcv[s].renFailed /\ rcv[s].pc = "finish" /\ rcv'[s].pc # "finish")
            => /\ rcv'[s].pc = "ret_false"
               /\ ~rcv'[s].printed
               /\ part' \notin OwnInodes(s)]_vars

(* C20, amended: ... and the removal of the staging file has been          *)
(* attempted: this call's staging file is gone when it returns unless that *)
(* removal failed as well.                                                 *)
C20_RenameFailureDeletesStagingUnlessRemoveFails ==
    [][\A s \in live :
         /\ (~rcv[s].renFailed /\ rcv'[s].renFailed)
               => (rcv'[s].pc = "cleanup" /\ ~rcv'[s].ok /\ final' = final)
         /\ (rcv[s].renFailed /\ rcv[s].pc = "cleanup" /\ rcv'[s].pc # "cleanup")
               => /\ rcv'[s].pc = "finish"
                  /\ part' # NoFile => (part' = part /\ rcv'[s].rmFailed)
         /\ (rcv[s].renFailed /\ rcv[s].pc = "finish" /\ rcv'[s].pc # "finish")
               => /\ rcv'[s].pc = "ret_false"
                  /\ ~rcv'[s].printed
                  /\ part' \in OwnInodes(s) => rcv'[s].rmFailed]_vars

(* all bytes arrived, the rename threw, the staging file was removed and   *)
(* the call returned false                                                 *)
C20_Witness ==
    \E s \in live :
        /\ rcv[s].pc = "ret_false"
        /\ rcv[s].renFailed
        /\ ~rcv[s].rmFailed
        /\ ~rcv[s].overlap
        /\ rcv[s].eot
        /\ rcv[s].got # <<>>
        /\ chan[s].data = <<>>
        /\ part = NoFile

----------------------------------------------------------------------------
(* Claims about the sessions *)

(* C12: a task that handles an accepted connection has closed it exactly   *)
(* once when the task ends, whatever path the handler took, and never      *)
(* closes it more than once.                                               *)
C12_ConnectionClosedOnce ==
    \A s \in AllSessions :
        /\ hnd[s].closes <= 1
        /\ HandlerEnded(s) => hnd[s].closes = 1

(* C11: a session that fails stays without effect on the pool and on the   *)
(* other sessions: no worker thread ends, a worker whose task is over goes *)
(* back to the queue, and a session that retrieves a file reads and sends  *)
(* it in the chunks that the transfers running at that moment allow,       *)
(* whatever sessions failed before, so that it ends with the result its    *)
(* own file and channel determine.                                         *)
C11_FailureIsConfined ==
    [][/\ \A w \in Workers :
            /\ wpc'[w] # "exited"
            /\ (wpc[w] = "run" /\ wpc'[w] # "run") => wpc'[w] = "lock"
       /\ \A s \in AllSessions :
            (hnd[s].pc = "retrieve" /\ snd[s].pc = "loop" /\ snd'[s].pc = "send")
               => /\ Len(snd'[s].buf) =
                        Min(calculateChunkSize(InFlight),
                            Len(snd[s].file) - snd[s].pos)
                  /\ snd'[s].pos > snd[s].pos \/ snd'[s].eof]_vars

----------------------------------------------------------------------------
(* Claims about the staging file *)

(* what a reader of the final path sees *)
FinalView == IF final = NoFile THEN <<"absent">> ELSE <<"file", final, fsData[final]>>

(* the step is one of call s: every action of receiveFile moves pc or      *)
(* counts a retry                                                          *)
StepOfRecv(s) ==
    rcv'[s].pc # rcv[s].pc \/ rcv'[s].retries # rcv[s].retries

RenameStep(s) ==
    /\ rcv[s].pc = "close"
    /\ rcv'[s].pc = "finish"
    /\ rcv[s].ok
    /\ final' = part
    /\ part' = NoFile

(* C21: no step of a receiveFile call creates the final path or changes    *)
(* what it holds, except the call's rename of the staging file.            *)
C21_FinalChangedOnlyByRename ==
    [][\A s \in live :
         (StepOfRecv(s) /\ FinalView' # FinalView) => RenameStep(s)]_vars

(* C21, amended: ... when no other receiveFile call on the same            *)
(* destination path ran during this one.                                   *)
C21_FinalChangedOnlyByRenameWhenAlone ==
    [][\A s \in live :
         (StepOfRecv(s) /\ ~rcv'[s].overlap /\ FinalView' # FinalView)
            => RenameStep(s)]_vars

(* a call that met no other call has stored bytes in its staging file and  *)
(* then renamed it: the final path holds them                              *)
C21_Witness ==
    \E s \in live :
        /\ rcv[s].pc = "finish"
        /\ rcv[s].ok
        /\ ~rcv[s].overlap
        /\ rcv[s].got # <<>>
        /\ final = TempIno(s)
        /\ fsData[final] = rcv[s].got
        /\ part = NoFile

(* session u is inside its receive loop, writing the file it opened *)
Writing(u) == rcv[u].pc \in {"loop", "recv"} /\ rcv[u].fd # NoFile

(* C27: nothing keeps two receiveFile calls on one destination path apart. *)
(* A call's open of <dest>.part succeeds on, and truncates, a staging file *)
(* that is there, also while another call is writing it; and a call's      *)
(* remove, cleanup or rename takes the staging file away from under a call *)
(* that is writing it, which goes on writing.                              *)
C27_StagingFileIsShared ==
    [][\A s \in live :
         /\ (rcv[s].pc = "opentmp" /\ rcv'[s].pc # "opentmp" /\ part # NoFile)
               => /\ rcv'[s].pc = "loop"
                  /\ rcv'[s].fd = part
                  /\ part' = part
                  /\ fsData'[part] = <<>>
         /\ (rcv[s].pc \in {"testrm", "cleanup"} /\ rcv'[s].pc # rcv[s].pc /\ dirWritable)
               => part' = NoFile
         /\ (rcv[s].pc = "close" /\ rcv'[s].pc = "finish")
               => (final' = part /\ part' = NoFile)
         /\ \A u \in live \ {s} :
               (Writing(u) /\ StepOfRecv(s)) => rcv'[u].fd = rcv[u].fd]_vars

(* both sessions had the same staging file open; one has renamed it to the *)
(* final path while the other is still in its receive loop                 *)
C27_Witness ==
    \E s \in live, u \in live :
        /\ s # u
        /\ Writing(u)
        /\ rcv[s].fd = rcv[u].fd
        /\ rcv[s].pc = "finish"
        /\ rcv[s].ok
        /\ final = rcv[u].fd
        /\ part = NoFile

(* both sessions are in their receive loops on the same staging file *)
C27_WitnessBothWriting ==
    \E s \in live, u \in live :
        s # u /\ Writing(s) /\ Writing(u) /\ rcv[s].fd = rcv[u].fd /\ part = rcv[s].fd

----------------------------------------------------------------------------
(* Claims about the queue of the pool *)

(* the place of task t in the queue, 0 when it is not queued *)
PosInQueue(q, t) ==
    IF \E i \in 1..Len(q) : q[i] = t
    THEN CHOOSE i \in 1..Len(q) : q[i] = t
    ELSE 0

(* worker w pops a task in this step *)
Dequeues(w) == wpc[w] = "lock" /\ wpc'[w] = "run"

(* C22: tasks leave the queue in the order their enqueue calls pushed      *)
(* them.  A push puts the task behind every task that is queued, those     *)
(* whose enqueue call has completed included; a worker that dequeues takes *)
(* the task at the front, so no task pushed before it is still queued; and *)
(* no step changes the order of the tasks that stay queued.                *)
C22_FifoOrder ==
    [][/\ \A b \in Tasks :
            (epc[b] = "idle" /\ epc'[b] = "notify")
               => /\ PosInQueue(tasks', b) = Len(tasks')
                  /\ \A a \in Tasks \ {b} :
                        InQueue(a) => (PosInQueue(tasks', a) = PosInQueue(tasks, a)
                                       /\ PosInQueue(tasks', a) < PosInQueue(tasks', b))
       /\ \A w \in Workers :
            Dequeues(w)
               => /\ PosInQueue(tasks, wtask'[w]) = 1
                  /\ \A a \in Tasks \ {wtask'[w]} :
                        InQueue(a) => PosInQueue(tasks', a) = PosInQueue(tasks, a) - 1
       /\ \A a \in Tasks, b \in Tasks :
            (InQueue(a) /\ InQueue(b) /\ PosInQueue(tasks', a) > 0
                 /\ PosInQueue(tasks', b) > 0
                 /\ PosInQueue(tasks, a) < PosInQueue(tasks, b))
               => PosInQueue(tasks', a) < PosInQueue(tasks', b)]_vars

(* task 1 was pushed and its enqueue had completed before task 2 was       *)
(* pushed; a worker has dequeued task 1 and task 2 is still queued         *)
C22_Witness ==
    \E w \in Workers :
        /\ wpc[w] = "run"
        /\ wtask[w] = 1
        /\ tasks = <<2>>
        /\ epc[1] = "done"
        /\ ran[1] = 0
        /\ \A v \in Workers \ {w} : wtask[v] = NoTask

(* C23: no wake-up is lost: when every thread that can step eventually     *)
(* does and running tasks end, a task pushed before stop was set does not  *)
(* stay in the queue: some worker dequeues it.  A task leaves the queue    *)
(* only by being dequeued and is pushed once, so it is enough that the     *)
(* queue is eventually free of such tasks whenever it holds one.           *)
C23_NoLostWakeup ==
    (\E t \in early : InQueue(t)) ~> (\A t \in early : ~InQueue(t))

(* a worker is running a task pushed before shutdown, the queue is empty   *)
(* again and the other workers are blocked in the wait                     *)
C23_Witness ==
    \E w \in Workers :
        /\ wpc[w] = "run"
        /\ wtask[w] \in early
        /\ epc[wtask[w]] = "done"
        /\ tasks = <<>>
        /\ ~stop
        /\ waiters = Workers \ {w}

(* where task t is: how often queued, how many workers hold it, how often  *)
(* run                                                                     *)
Queued(t) == Cardinality({i \in 1..Len(tasks) : tasks[i] = t})
Holders(t) == Cardinality({w \in Workers : wtask[w] = t})
Pushed(t) == epc[t] # "idle"

TaskInOnePlace ==
    \A t \in Tasks :
        /\ ran[t] <= 1
        /\ Queued(t) + Holders(t) + ran[t] = (IF Pushed(t) THEN 1 ELSE 0)

NoPopFromEmpty ==
    \A w \in Workers : (wpc[w] = "run") <=> (wtask[w] # NoTask)

(* C24: every enqueued task is executed exactly once, by exactly one       *)
(* worker: a pushed task is in exactly one place (queued once, or held by  *)
(* one worker, or run once), a worker that runs holds a task it popped,    *)
(* and when the pool has been destroyed every pushed task has been run.    *)
C24_EveryTaskRunsOnce ==
    /\ TaskInOnePlace
    /\ NoPopFromEmpty
    /\ dpc = "done" => \A t \in Tasks : Pushed(t) => ran[t] = 1

(* C24, amended: ... when the pool has been destroyed every task pushed    *)
(* before stop was set has been run; a task pushed later has been run or   *)
(* is still queued, and is never run after that.                           *)
C24_TaskRunsAtMostOnceAndOnceIfEarly ==
    /\ TaskInOnePlace
    /\ NoPopFromEmpty
    /\ dpc = "done" => \A t \in Tasks :
                          /\ t \in early => ran[t] = 1
                          /\ Pushed(t) => (ran[t] = 1 \/ Queued(t) = 1)

(* two workers are running two different tasks at once, and a third place, *)
(* the queue, is empty                                                     *)
C24_Witness ==
    \E w \in Workers, v \in Workers :
        /\ w # v
        /\ wpc[w] = "run"
        /\ wpc[v] = "run"
        /\ wtask[w] # wtask[v]
        /\ tasks = <<>>
        /\ \A t \in Tasks : ran[t] = 0

(* tasks (sessions, in the servers) taken from the queue and not yet ended, *)
(* and the worker threads still in their loop                              *)
InProgress == {t \in Tasks : Pushed(t) /\ Queued(t) = 0 /\ ran[t] = 0}
LiveWorkers == {w \in Workers : wpc[w] # "exited"}

----------------------------------------------------------------------------
(* The peer node (src/src/FileNode.cpp): main, stop() and the detached     *)
(* listener thread, over the pool of the node                              *)

(* main has not returned from ~FileNode: the process and its threads exist *)
ProcessAlive == dpc # "done"

(* lines 24-28: start() creates the runServer thread and detaches it *)
M_Start ==
    /\ lpc = "unstarted"
    /\ dpc = "idle"
    /\ lpc' = "test"
    /\ UNCHANGED running

(* lines 30-32: stop(), called by main at line 215 or by listenForInput on *)
(* "quit": the flag is cleared and nothing else is done                    *)
M_Stop ==
    /\ lpc # "unstarted"
    /\ dpc = "idle"
    /\ running
    /\ running' = FALSE
    /\ UNCHANGED lpc

(* line 216: main returns after stop(); node goes out of scope and its     *)
(* threadPool member is destroyed                                          *)
M_Return ==
    /\ ~running
    /\ D_Begin
    /\ UNCHANGED nodeVars

(* line 170: while (running) *)
L_Test ==
    /\ ProcessAlive
    /\ lpc = "test"
    /\ lpc' = IF running THEN "accept" ELSE "closed"
    /\ UNCHANGED running

(* line 173: accept() returns a connection; running is not looked at again *)
L_Accept ==
    /\ ProcessAlive
    /\ lpc = "accept"
    /\ \E t \in Tasks : epc[t] = "idle"
    /\ lpc' = "enqueue"
    /\ UNCHANGED running

(* lines 175-178: accept() fails, continue *)
L_AcceptFail ==
    /\ ProcessAlive
    /\ lpc = "accept"
    /\ lpc' = "test"
    /\ UNCHANGED running

(* lines 180-182: threadPool.enqueue(...), up to the push under the lock *)
L_Enqueue(t) ==
    /\ lpc = "enqueue"
    /\ E_Push(t)
    /\ lpc' = "notify"
    /\ UNCHANGED running

(* lines 180-182: enqueue notifies and returns, back to line 170 *)
L_Notify(t) ==
    /\ ProcessAlive
    /\ lpc = "notify"
    /\ E_NotifyOne(t)
    /\ lpc' = "test"
    /\ UNCHANGED running

NextNode ==
    \/ (M_Start /\ UNCHANGED <<xferVars, chunkVars, poolVars, handlerVars, paceVars>>)
    \/ (M_Stop /\ UNCHANGED <<xferVars, chunkVars, poolVars, handlerVars, paceVars>>)
    \/ (M_Return /\ UNCHANGED <<xferVars, chunkVars, handlerVars, paceVars>>)
    \/ (L_Test /\ UNCHANGED <<xferVars, chunkVars, poolVars, handlerVars, paceVars>>)
    \/ (L_Accept /\ UNCHANGED <<xferVars, chunkVars, poolVars, handlerVars, paceVars>>)
    \/ (L_AcceptFail /\ UNCHANGED <<xferVars, chunkVars, poolVars, handlerVars, paceVars>>)
    \/ \E t \in Tasks : L_Enqueue(t) /\ UNCHANGED <<xferVars, chunkVars, handlerVars, paceVars>>
    \/ \E t \in Tasks : L_Notify(t) /\ UNCHANGED <<xferVars, chunkVars, handlerVars, paceVars>>
    \/ \E w \in Workers : WorkerStep(w) /\ UNCHANGED <<xferVars, chunkVars, handlerVars, nodeVars, paceVars>>
    \/ \E w \in Workers : W_Spurious(w) /\ UNCHANGED <<xferVars, chunkVars, handlerVars, nodeVars, paceVars>>
    \/ (DestroyStep /\ UNCHANGED <<xferVars, chunkVars, handlerVars, nodeVars, paceVars>>)

SpecNode == InitPoolSpec /\ [][NextNode]_vars

(* C28: the listener thread of FileNode never calls enqueue on the pool    *)
(* after the pool's shutdown has begun: every push into the queue happens  *)
(* while ~ThreadPool has not been entered.                                 *)
C28_NoEnqueueAfterShutdown ==
    [][\A t \in Tasks : (epc[t] = "idle" /\ epc'[t] # "idle") => dpc = "idle"]_vars

(* the listener pushed a connection's task while the destructor was        *)
(* joining, after the last worker had left: the connection is never served *)
C28_Dropped ==
    \E t \in Tasks : late[t] /\ Queued(t) = 1 /\ ~running /\ dpc = "done"

----------------------------------------------------------------------------
(* Pacing of one transfer (FileTransfer.cpp lines 48, 77-83 in sendFile;   *)
(* lines 170, 202-207 in receiveFile). pace.now is steady_clock::now()     *)
(* minus start, in ticks; time passes between any two statements.          *)

(* std::chrono::seconds(total / BASE_TRANSFER_RATE), in ticks *)
ExpectedDuration(total) == (total \div BASE_TRANSFER_RATE) * TicksPerSec

(* lines 48-49 / 170-171: start = now(), total = 0 *)
P_Begin(op) ==
    /\ pace.pc = "idle"
    /\ pace' = [PaceIdle EXCEPT !.pc = "chunk", !.op = op]

(* the steady clock advances *)
P_Tick ==
    /\ pace.pc \notin {"idle", "done"}
    /\ pace.now < MaxTicks
    /\ pace' = [pace EXCEPT !.now = @ + 1]

(* lines 55-63, 78: a chunk of n bytes read and sent (n = 0 for the read   *)
(* that only finds the end of the file); lines 183, 200-202: n > 0 bytes   *)
(* received and written. The total is advanced.                            *)
P_Chunk(n) ==
    /\ pace.pc = "chunk"
    /\ pace.op = "recv" => n > 0
    /\ pace.total + n <= MaxTotal
    /\ pace' = [pace EXCEPT !.pc = "measure", !.total = @ + n]

(* lines 54, 72-75 / 189-198: the loop is left: end of file, retries used  *)
(* up, receive error or end of transmission                                *)
P_Leave ==
    /\ pace.pc = "chunk"
    /\ pace' = [pace EXCEPT !.pc = "done"]

(* lines 79-81 / 203-205: elapsed is read, expectedDuration computed and   *)
(* the two compared                                                        *)
P_Measure_Millis ==
    /\ pace.pc = "measure"
    /\ LET expected == pace.total \div BASE_TRANSFER_RATE
       IN  IF pace.now < expected
           THEN pace' = [pace EXCEPT !.pc = "sleepcall", !.elapsed = pace.now,
                                     !.dur = expected - pace.now]
           ELSE pace' = [pace EXCEPT !.pc = "chunk", !.elapsed = pace.now]

P_Measure ==
    /\ pace.pc = "measure"
    /\ LET expected == ExpectedDuration(pace.total)
       IN  IF pace.now < expected
           THEN pace' = [pace EXCEPT !.pc = "sleepcall", !.elapsed = pace.now,
                                     !.dur = expected - pace.now]
           ELSE pace' = [pace EXCEPT !.pc = "chunk", !.elapsed = pace.now]

(* line 82 / 206: sleep_for(expectedDuration - elapsed) is entered *)
P_Sleep ==
    /\ pace.pc = "sleepcall"
    /\ pace' = [pace EXCEPT !.pc = "sleeping", !.wake = pace.now + pace.dur]

(* sleep_for returns, not before the duration has passed *)
P_Wake ==
    /\ pace.pc = "sleeping"
    /\ pace.now >= pace.wake
    /\ pace' = [pace EXCEPT !.pc = "chunk"]

NextPace ==
    \/ \E op \in {"send", "recv"} : P_Begin(op) /\ UNCHANGED <<xferVars, chunkVars, poolVars, handlerVars, nodeVars>>
    \/ (P_Tick /\ UNCHANGED <<xferVars, chunkVars, poolVars, handlerVars, nodeVars>>)
    \/ \E n \in 0..BASE_TRANSFER_RATE : P_Chunk(n) /\ UNCHANGED <<xferVars, chunkVars, poolVars, handlerVars, nodeVars>>
    \/ (P_Leave /\ UNCHANGED <<xferVars, chunkVars, poolVars, handlerVars, nodeVars>>)
    \/ (P_Measure /\ UNCHANGED <<xferVars, chunkVars, poolVars, handlerVars, nodeVars>>)
    \/ (P_Sleep /\ UNCHANGED <<xferVars, chunkVars, poolVars, handlerVars, nodeVars>>)
    \/ (P_Wake /\ UNCHANGED <<xferVars, chunkVars, poolVars, handlerVars, nodeVars>>)

SpecPace == InitPoolSpec /\ [][NextPace]_vars

====
